---- MODULE Spec2Model ----
(***************************************************************************)
(* Model of the PVZ pickup-point service: the order state machine over a   *)
(* relational store and a look-aside cache (OrderSpec), the in-process     *)
(* audit logger (AuditSpec) and its shutdown (ShutdownSpec), the outbox    *)
(* dispatcher (OutboxSpec), cursor pagination (ListSpec), the refresh of   *)
(* the history snapshot (RefreshSpec), the import of order files           *)
(* (ImportSpec), the bus consumer (ConsumerSpec) and the in-process LRU    *)
(* cache with its list elements (MemSpec).                                 *)
(***************************************************************************)
EXTENDS Integers, Sequences, FiniteSets, TLC

\* ------------------------------------------------------------------ bounds
\* The wall clock runs over 0..MaxTime; one tick is 48 hours.
MaxTime == 2
\* Order ids the callers use (0 is the invalid id).
NumOrders == 1
OrderIds == 1..NumOrders
\* Customer ids that ask for orders (0 is the invalid id).
Customers == {1, 2}
\* Concurrent callers of the Order Service.
Callers == {1, 2}
Before(q, p) == q < p

\* ------------------------------------------------------- program constants
\* const ReturnedAt = 48 * time.Hour, in ticks of 48 hours.
ReturnedAt == 1
\* cache_type.order_ttl, rounded up to one tick.
DefaultOrderTTL == 1
\* cache_type.additional_duration, rounded up to one tick.
AdditionalDuration == 1
\* cache_type.max_cache_size, scaled to the number of order ids.
MaxCacheSize == 2
\* cache_type.history_ttl, rounded up to one tick.
HistoryTTL == 1

Null == 0 - 1

Min(a, b) == IF a <= b THEN a ELSE b

\* ------------------------------------------------------------------- state
\* the orders table, the order cache and the Order Service calls in progress
VARIABLES
    now,        \* time.Now()
    store,      \* the orders table: id -> row, ZeroOrder when there is no row
    cacheKind,  \* which cache backend was constructed: "redis" or "inmem"
    cache,      \* id -> cache entry (NoEntry when absent)
    lruList,    \* InMemoryCache.lruList: ids, most recently used first
    pc,         \* per caller: position inside the service call
    op,         \* per caller: the operation in progress
    arg,        \* per caller: the arguments of the call
    ord,        \* per caller: the local variable `order`
    res,        \* per caller: the error the call returned ("" while running, "ok")
    emitted,    \* per caller: the ORDER_STATUS event the call handed to the logger
    todo,       \* per caller: ClearDatabase's list of orders still to delete
    history     \* the history snapshot loaded at start (NoHistory once it is gone)

ordVars == <<now, store, cacheKind, cache, lruList, pc, op, arg, ord, res, emitted, todo, history>>

\* the audit logger
VARIABLES
    mainLogCh,  \* AuditLogger.mainLogCh: the buffered events
    overflow,   \* LogQueue.overflow
    mu,         \* LogQueue.mu: "free" or "locked"
    logPc,      \* per caller of Log: position inside the call
    logEv,      \* per caller of Log: the event being logged
    logCtx,     \* per caller of Log: whether the caller's context is done
    passed,     \* how many events have been passed to Log (events are numbered)
    spilled,    \* the events that went through the overflow list
    fanPc,      \* fanOutLogs: "recv", or "send" while copying an event to the pools
    fanLog,     \* fanOutLogs: the event in hand
    fanIdx,     \* fanOutLogs: index of the pool the event goes to next
    inputCh,    \* per pool: WorkerPool.inputCh
    batch,      \* per pool and worker: the batch being accumulated
    handed,     \* per pool and event: how often processLogs received the event
    flushPc,    \* processOverflow / tryFlushOverflow: position
    flushLog,   \* tryFlushOverflow: the event taken from the front of the list
    mailed,     \* the events in the order in which they entered mainLogCh
    inboxed     \* per pool: the events in the order in which they entered inputCh

auditVars == <<mainLogCh, overflow, mu, logPc, logEv, logCtx, passed, spilled,
               fanPc, fanLog, fanIdx, inputCh, batch, handed, flushPc, flushLog,
               mailed, inboxed>>

\* the audit logger while Shutdown runs
VARIABLES
    cancelled,    \* the logger's context has been cancelled
    chClosed,   \* mainLogCh has been closed
    inClosed,   \* per pool: inputCh has been closed
    shutPc,     \* Shutdown: "run" (not called), "close", the three waits, "returned"
    workerDone, \* per pool and worker: the goroutine has returned
    printed     \* the events tryFlushOverflowOnShutdown has printed

stopVars == <<cancelled, chClosed, inClosed, shutPc, workerDone, printed>>

\* the audit_logs and audit_tasks tables and the outbox workers
VARIABLES
    clock,      \* NOW() of the database, in ticks of two seconds
    logs,       \* audit_logs: the ids of the committed rows
    createErr,  \* what the last CreateLogsWithTasks call returned ("" for nil)
    tasks,      \* audit_tasks: task id -> row, NoTask when there is no row
    created,    \* how many tasks have been created (task ids are serial)
    wpc,        \* per outbox worker: position inside processOutboxBatch
    wbatch,     \* per outbox worker: the reserved tasks still to process
    published,  \* per task id: messages keyed by it that reached the bus
    failures    \* per task id: committed MarkTaskFailed calls

outboxVars == <<clock, logs, createErr, tasks, created, wpc, wbatch, published, failures>>

\* a client paging through the orders table with ListWithCursor
VARIABLES
    table,      \* the orders table being listed: id -> row (ZeroOrder: no row)
    listNow,    \* time.Now() of the listing
    listArgs,   \* limit, customerID, filterPVZ, searchTerm of the listing
    cursor,     \* the cursorID of the next call
    page,       \* the rows the last call returned
    listed,     \* the ids returned so far, in the order they came
    listPc      \* "call": the client asks for the next page; "end": it has stopped

listVars == <<table, listNow, listArgs, cursor, page, listed, listPc>>

\* the periodic refresh of the history snapshot
VARIABLES
    refreshMu,     \* refreshMu: 0 when free, the holder otherwise
    refreshPc,     \* per request: position inside refreshHistoryCache
    refreshOrders, \* per request: the local variable `orders`
    repoReads,     \* how many times repo.List has been called for a refresh
    refreshCalls   \* how many refresh requests have been made

refreshVars == <<refreshMu, refreshPc, refreshOrders, repoReads, refreshCalls>>

\* the bus consumer's outer loop
VARIABLES
    consPc,            \* Consumer.Start's goroutine: position in the loop
    handlerReady,      \* the local variable handlerReady: the channel it names
    handler,           \* handler.ready of the handler passed to Consume
    closes,            \* per channel: how often close() was called on it
    sessionUp,         \* Setup has run in the Consume call in progress
    consecutiveErrors, \* the local variable consecutiveErrors
    backoff,           \* the delay last computed, in milliseconds
    sinceSetup,        \* failed Consume calls since the last session was set up
    consCtxDone        \* the consumer's context is cancelled

consVars == <<consPc, handlerReady, handler, closes, sessionUp, consecutiveErrors,
              backoff, sinceSetup, consCtxDone>>

\* the in-process order cache on its own
VARIABLES
    memNow,     \* time.Now()
    memMap,     \* ordersLruMap: id -> list element (0: no key)
    memItem,    \* per list element: its Value, the lruItem (ID and entry)
    memNext,    \* per list element, element 0 being lruList.root: next
    memPrev,    \* per list element, element 0 being lruList.root: prev
    memOwner,   \* per list element: whether its list field is lruList
    memLen,     \* lruList.len
    memPc,      \* per GetOrder call: position inside the call
    memElem,    \* per GetOrder call: the local variable elem
    memReap,    \* cleanupExpiredOrders: expiredIDs, between its two locks
    memReapPc,  \* cleanupExpiredOrders: "idle" or "sweep"
    memPanic,   \* a goroutine of the cache has panicked
    memUse,     \* the cached ids, the most recently set or read first
    memEvicted  \* the id the last SetOrder evicted (0: it evicted nothing)

memVars == <<memNow, memMap, memItem, memNext, memPrev, memOwner, memLen,
             memPc, memElem, memReap, memReapPc, memPanic, memUse, memEvicted>>

vars == <<ordVars, auditVars, stopVars, outboxVars, listVars, refreshVars, consVars, memVars>>

\* model.Order{} : the zero value, which the repository returns with an error
ZeroOrder ==
    [id |-> 0, customer |-> 0, state |-> "", weight |-> 0, cost |-> 0,
     deadline |-> 0, updated |-> 0, delivered |-> Null, returned |-> Null]

NoEntry == [order |-> ZeroOrder, ttl |-> 0]
NoArg == [id |-> 0, customer |-> 0, now |-> 0]
Args(id, customer, t) == [id |-> id, customer |-> customer, now |-> t]
\* the arguments of an AcceptOrder call
AcceptArgs(id, customer, t, deadline, weight, cost) ==
    [id |-> id, customer |-> customer, now |-> t,
     deadline |-> deadline, weight |-> weight, cost |-> cost]
NoEvent == <<>>
NoHistory == [orders |-> {}, ttl |-> Null]

\* ------------------------------------------------------------ order cache
\* ttl := min(time.Until(order.DeadlineAt)+additionalDuration, defaultOrderTTL)
CacheTTL(order) == Min(order.deadline - now + AdditionalDuration, DefaultOrderTTL)

Without(seq, id) == SelectSeq(seq, LAMBDA x : x # id)

\* InMemoryCache.SetOrder: refuse an order past its deadline; update in place
\* and promote, or evict the LRU tail when full and push to the front.
InMemSetOrder(c, l, order) ==
    IF now > order.deadline
    THEN [cache |-> c, lru |-> l, err |-> "NotCached"]
    ELSE LET entry == [order |-> order, ttl |-> now + CacheTTL(order)]
         IN  IF c[order.id] # NoEntry
             THEN [cache |-> [c EXCEPT ![order.id] = entry],
                   lru |-> <<order.id>> \o Without(l, order.id), err |-> ""]
             ELSE LET evict == Len(l) >= MaxCacheSize /\ Len(l) > 0
                      c1 == IF evict THEN [c EXCEPT ![l[Len(l)]] = NoEntry] ELSE c
                      l1 == IF evict THEN SubSeq(l, 1, Len(l) - 1) ELSE l
                  IN  [cache |-> [c1 EXCEPT ![order.id] = entry],
                       lru |-> <<order.id>> \o l1, err |-> ""]

\* RedisCache.SetOrder: the same refusal; SET key value EX ttl.
RedisSetOrder(c, l, order) ==
    IF now > order.deadline
    THEN [cache |-> c, lru |-> l, err |-> "NotCached"]
    ELSE [cache |-> [c EXCEPT ![order.id] =
                        [order |-> order, ttl |-> now + CacheTTL(order)]],
          lru |-> l, err |-> ""]

\* InMemoryCache.DeleteOrder: an absent id is reported as ErrOrderNotFoundInCache.
InMemDeleteOrder(c, l, id) ==
    IF c[id] = NoEntry
    THEN [cache |-> c, lru |-> l, err |-> "NotFoundInCache"]
    ELSE [cache |-> [c EXCEPT ![id] = NoEntry], lru |-> Without(l, id), err |-> ""]

\* RedisCache.DeleteOrder: DEL key succeeds whether or not the key exists.
RedisDeleteOrder(c, l, id) ==
    [cache |-> [c EXCEPT ![id] = NoEntry], lru |-> l, err |-> ""]

\* InMemoryCache.GetOrder: miss, or expired (entry removed), or hit (promoted).
InMemGetOrder(c, l, id) ==
    IF c[id] = NoEntry
    THEN [cache |-> c, lru |-> l, err |-> "NotFoundInCache", order |-> ZeroOrder]
    ELSE IF now > c[id].ttl \/ now > c[id].order.deadline
    THEN [cache |-> InMemDeleteOrder(c, l, id).cache,
          lru |-> InMemDeleteOrder(c, l, id).lru,
          err |-> "Expired", order |-> ZeroOrder]
    ELSE [cache |-> c, lru |-> <<id>> \o Without(l, id), err |-> "",
          order |-> c[id].order]

\* RedisCache.GetOrder: redis.Nil is a miss; a value past its deadline is
\* deleted and reported as expired.
RedisGetOrder(c, l, id) ==
    IF c[id] = NoEntry
    THEN [cache |-> c, lru |-> l, err |-> "NotFoundInCache", order |-> ZeroOrder]
    ELSE IF now > c[id].order.deadline
    THEN [cache |-> RedisDeleteOrder(c, l, id).cache, lru |-> l,
          err |-> "Expired", order |-> ZeroOrder]
    ELSE [cache |-> c, lru |-> l, err |-> "", order |-> c[id].order]

\* the orderCache interface of the service, bound to the constructed backend
SetOrder(c, l, order) ==
    IF cacheKind = "inmem" THEN InMemSetOrder(c, l, order) ELSE RedisSetOrder(c, l, order)
GetOrder(c, l, id) ==
    IF cacheKind = "inmem" THEN InMemGetOrder(c, l, id) ELSE RedisGetOrder(c, l, id)
DeleteOrder(c, l, id) ==
    IF cacheKind = "inmem" THEN InMemDeleteOrder(c, l, id) ELSE RedisDeleteOrder(c, l, id)

\* cache_type.order_key_prefix and cache_type.history_key_prefix: the Redis
\* key of order id is orderKeyPrefix followed by the id, the snapshot is kept
\* under historyKey.
orderKeyPrefix == <<"o", "r", "d", "e", "r", ":">>
historyKey == <<"h", "i", "s", "t", "o", "r", "y">>

\* KEYS prefix* : the keys that start with the prefix
HasPrefix(key, prefix) ==
    Len(key) >= Len(prefix) /\ SubSeq(key, 1, Len(prefix)) = prefix

\* a clear that drops every key of the cache, the snapshot included
ClearAllKeys(c, l, h) ==
    [cache |-> [i \in OrderIds |-> NoEntry], lru |-> <<>>, history |-> NoHistory, err |-> ""]

\* InMemoryCache.ClearOrderCache: the list and the map are re-made; the
\* history field is not touched.
InMemClearOrderCache(c, l, h) ==
    [cache |-> [i \in OrderIds |-> NoEntry], lru |-> <<>>, history |-> h, err |-> ""]

\* RedisCache.ClearOrderCache: DEL of every key that matches orderKeyPrefix*.
RedisClearOrderCache(c, l, h) ==
    [cache |-> [i \in OrderIds |-> NoEntry], lru |-> l,
     history |-> IF HasPrefix(historyKey, orderKeyPrefix) THEN NoHistory ELSE h,
     err |-> ""]

ClearOrderCache(c, l, h) ==
    IF cacheKind = "inmem" THEN InMemClearOrderCache(c, l, h)
    ELSE RedisClearOrderCache(c, l, h)

\* Redis drops a key when its TTL has elapsed.
RedisExpire(c, t) == [i \in OrderIds |-> IF c[i] # NoEntry /\ c[i].ttl <= t THEN NoEntry ELSE c[i]]

\* ----------------------------------------------------------- order service
\* Callers are interchangeable goroutines: a request is served by the first
\* idle one.
Begin(p, name) ==
    /\ pc[p] = "idle"
    /\ \A q \in Callers : pc[q] = "idle" => \neg Before(q, p)
    /\ op' = [op EXCEPT ![p] = name]

\* The call made with arguments a returns err (or "ok"); its locals, the time
\* it read included, are gone, except the order a successful GetOrderByID
\* hands back.
FinishWith(p, a, err, order) ==
    /\ pc' = [pc EXCEPT ![p] = "done"]
    /\ res' = [res EXCEPT ![p] = err]
    /\ arg' = [arg EXCEPT ![p] = [a EXCEPT !.now = 0]]
    /\ ord' = [ord EXCEPT ![p] = order]

Finish(p, a, err) == FinishWith(p, a, err, ZeroOrder)

\* The call goes on to its next repository or cache call.
Goto(p, label, a, order) ==
    /\ pc' = [pc EXCEPT ![p] = label]
    /\ res' = res
    /\ arg' = [arg EXCEPT ![p] = a]
    /\ ord' = [ord EXCEPT ![p] = order]

UseCache(r) ==
    /\ cache' = r.cache
    /\ lruList' = r.lru

\* Weights and costs are counted in thousandths of a unit. The columns weight
\* and cost are DECIMAL(10, 2): a value is rounded to hundredths when it is
\* written.
ToDecimal(x) == ((x + 5) \div 10) * 10

\* the row the INSERT or UPDATE of an order leaves in the orders table (the
\* clock's ticks are coarser than the microseconds of TIMESTAMP WITH TIME ZONE)
Row(order) ==
    [order EXCEPT !.weight = ToDecimal(order.weight), !.cost = ToDecimal(order.cost)]

\* PostgresOrderRepository.GetByID: the row, or model.Order{} with ErrOrderNotFound
GetByID(id) == store[id]

\* a validation that looks at the weight before it probes the store
AcceptErrorWeightFirst(id, deadline, weight, cost) ==
    IF id <= 0 THEN "InvalidOrderID"
    ELSE IF now > deadline THEN "StorageDeadlinePassed"
    ELSE IF weight <= 0 THEN "NegativeWeight"
    ELSE IF GetByID(id).id = id THEN "OrderExists"
    ELSE IF cost <= 0 THEN "NegativeCost"
    ELSE ""

\* AcceptOrder, lines 94-114: validation and the existence probe
AcceptError(id, deadline, weight, cost) ==
    IF id <= 0 THEN "InvalidOrderID"
    ELSE IF now > deadline THEN "StorageDeadlinePassed"
    ELSE IF GetByID(id).id = id THEN "OrderExists"
    ELSE IF weight <= 0 THEN "NegativeWeight"
    ELSE IF cost <= 0 THEN "NegativeCost"
    ELSE ""

\* lines 135-145: the order to create (no package type given)
NewOrder(id, customer, deadline, weight, cost) ==
    [id |-> id, customer |-> customer, state |-> "accepted",
     weight |-> weight, cost |-> cost, deadline |-> deadline,
     updated |-> now, delivered |-> Null, returned |-> Null]

AcceptOrder(p, id, customer, deadline, weight, cost) ==
    /\ Begin(p, "AcceptOrder")
    /\ IF AcceptError(id, deadline, weight, cost) # ""
       THEN Finish(p, AcceptArgs(id, customer, now, deadline, weight, cost),
                   AcceptError(id, deadline, weight, cost))
       ELSE Goto(p, "acc_create", AcceptArgs(id, customer, now, deadline, weight, cost),
                 NewOrder(id, customer, deadline, weight, cost))
    /\ UNCHANGED <<listVars, refreshVars, consVars, memVars, stopVars, auditVars, outboxVars, now, store, cacheKind, cache, lruList, emitted, todo, history>>

\* PostgresOrderRepository.Create up to the existence check: SELECT EXISTS(...
\* FOR UPDATE) locks nothing when there is no row yet.
CreateError(order) ==
    IF order.id <= 0 THEN "InvalidOrderID"
    ELSE IF order.customer <= 0 THEN "InvalidCustomerID"
    ELSE IF store[order.id].id = order.id THEN "OrderAlreadyExists"
    ELSE ""

AcceptCreate(p) ==
    /\ pc[p] = "acc_create"
    /\ IF CreateError(ord[p]) # ""
       THEN Finish(p, arg[p], CreateError(ord[p]))
       ELSE Goto(p, "acc_insert", arg[p], ord[p])
    /\ UNCHANGED <<listVars, refreshVars, consVars, memVars, stopVars, auditVars, outboxVars, now, store, cacheKind, cache, lruList, op, emitted, todo, history>>

\* Create's INSERT and commit: a row committed meanwhile under the same
\* primary key makes the INSERT fail with a unique violation.
AcceptInsert(p) ==
    /\ pc[p] = "acc_insert"
    /\ IF store[ord[p].id] # ZeroOrder
       THEN Finish(p, arg[p], "InsertFailed") /\ store' = store
       ELSE /\ Goto(p, "acc_cache", arg[p], ord[p])
            /\ store' = [store EXCEPT ![ord[p].id] = Row(ord[p])]
    /\ UNCHANGED <<listVars, refreshVars, consVars, memVars, stopVars, auditVars, outboxVars, now, cacheKind, cache, lruList, op, emitted, todo, history>>

\* cache.SetOrder after the store write, then LogOrderStatusChange(old, new)
WriteCache(p, old, new) ==
    LET r == SetOrder(cache, lruList, ord[p])
    IN  /\ UseCache(r)
        /\ IF r.err # ""
           THEN Finish(p, arg[p], r.err) /\ emitted' = emitted
           ELSE /\ Finish(p, arg[p], "ok")
                /\ emitted' = [emitted EXCEPT ![p] = <<ord[p].id, old, new>>]

AcceptCache(p) ==
    /\ pc[p] = "acc_cache"
    /\ op[p] = "AcceptOrder"
    /\ WriteCache(p, "none", "accepted")
    /\ UNCHANGED <<listVars, refreshVars, consVars, memVars, stopVars, auditVars, outboxVars, now, store, cacheKind, op, todo, history>>

\* AcceptOrdersFromFile for a file of one order: the call of AcceptOrder
AcceptOrdersFromFile(p, id, customer, deadline, weight, cost) ==
    /\ Begin(p, "AcceptOrdersFromFile")
    /\ IF AcceptError(id, deadline, weight, cost) # ""
       THEN Finish(p, AcceptArgs(id, customer, now, deadline, weight, cost),
                   AcceptError(id, deadline, weight, cost))
       ELSE Goto(p, "acc_create", AcceptArgs(id, customer, now, deadline, weight, cost),
                 NewOrder(id, customer, deadline, weight, cost))
    /\ UNCHANGED <<listVars, refreshVars, consVars, memVars, stopVars, auditVars, outboxVars, now, store, cacheKind, cache, lruList, emitted, todo, history>>

\* AcceptOrder's cache.SetOrder and LogOrderStatusChange inside
\* AcceptOrdersFromFile: an error ends the import, otherwise AcceptOrder
\* returns nil to the loop
FileAcceptCache(p) ==
    /\ pc[p] = "acc_cache"
    /\ op[p] = "AcceptOrdersFromFile"
    /\ LET r == SetOrder(cache, lruList, ord[p])
       IN  /\ UseCache(r)
           /\ IF r.err # ""
              THEN Finish(p, arg[p], r.err) /\ emitted' = emitted
              ELSE /\ Goto(p, "file_log", arg[p], ord[p])
                   /\ emitted' = [emitted EXCEPT ![p] = <<ord[p].id, "none", "accepted">>]
    /\ UNCHANGED <<listVars, refreshVars, consVars, memVars, stopVars, auditVars, outboxVars, now, store, cacheKind, op, todo, history>>

\* AcceptOrdersFromFile, after AcceptOrder has returned nil:
\* LogOrderStatusChange(order.ID, "none", "accepted"), and the loop ends
FileLog(p) ==
    /\ pc[p] = "file_log"
    /\ emitted' = [emitted EXCEPT ![p] = @ \o <<ord[p].id, "none", "accepted">>]
    /\ Finish(p, arg[p], "ok")
    /\ UNCHANGED <<listVars, refreshVars, consVars, memVars, stopVars, auditVars, outboxVars, now, store, cacheKind, cache, lruList, op, todo, history>>

\* PostgresOrderRepository.Update: the row is locked FOR UPDATE, every
\* mutable column is overwritten, ErrOrderNotFound when the row is gone.
Update(p, next) ==
    IF store[ord[p].id] = ZeroOrder
    THEN Finish(p, arg[p], "OrderNotFound") /\ store' = store
    ELSE /\ Goto(p, next, arg[p], ord[p])
         /\ store' = [store EXCEPT ![ord[p].id] = Row(ord[p])]

\* checks that look at the state before the owner
DeliverErrorStateFirst(order, customer, t) ==
    IF order.state # "accepted" THEN "WrongState"
    ELSE IF order.customer # customer THEN "WrongCustomer"
    ELSE IF t > order.deadline THEN "StorageExpired"
    ELSE ""

\* DeliverOrder, lines 220-232: the checks on the order that was read
DeliverError(order, customer, t) ==
    IF order.customer # customer THEN "WrongCustomer"
    ELSE IF order.state # "accepted" THEN "WrongState"
    ELSE IF t > order.deadline THEN "StorageExpired"
    ELSE ""

\* a delivery that forgets the timestamp
DeliveredUnstamped(order, t) ==
    [order EXCEPT !.state = "delivered", !.updated = t]

\* lines 238-240
Delivered(order, t) ==
    [order EXCEPT !.state = "delivered", !.updated = t, !.delivered = t]

DeliverDecide(p, order, a) ==
    IF DeliverError(order, a.customer, a.now) # ""
    THEN Finish(p, a, DeliverError(order, a.customer, a.now))
    ELSE Goto(p, "dlv_update", a, Delivered(order, a.now))

\* cache.GetOrder at the start of the call; a miss of any kind falls back to
\* the repository in the next step
DeliverOrder(p, id, customer) ==
    /\ Begin(p, "DeliverOrder")
    /\ LET r == GetOrder(cache, lruList, id)
       IN  /\ UseCache(r)
           /\ IF r.err = ""
              THEN DeliverDecide(p, r.order, Args(id, customer, now))
              ELSE Goto(p, "dlv_repo", Args(id, customer, now), ZeroOrder)
    /\ UNCHANGED <<listVars, refreshVars, consVars, memVars, stopVars, auditVars, outboxVars, now, store, cacheKind, emitted, todo, history>>

DeliverRepo(p) ==
    /\ pc[p] = "dlv_repo"
    /\ IF GetByID(arg[p].id) = ZeroOrder
       THEN Finish(p, arg[p], "OrderNotFound")
       ELSE DeliverDecide(p, GetByID(arg[p].id), arg[p])
    /\ UNCHANGED <<listVars, refreshVars, consVars, memVars, stopVars, auditVars, outboxVars, now, store, cacheKind, cache, lruList, op, emitted, todo, history>>

DeliverUpdate(p) ==
    /\ pc[p] = "dlv_update"
    /\ Update(p, "dlv_cache")
    /\ UNCHANGED <<listVars, refreshVars, consVars, memVars, stopVars, auditVars, outboxVars, now, cacheKind, cache, lruList, op, emitted, todo, history>>

DeliverCache(p) ==
    /\ pc[p] = "dlv_cache"
    /\ WriteCache(p, "accepted", "delivered")
    /\ UNCHANGED <<listVars, refreshVars, consVars, memVars, stopVars, auditVars, outboxVars, now, store, cacheKind, op, todo, history>>

\* ProcessReturnOrder, lines 274-288; *order.DeliveredAt is dereferenced
ReturnError(order, customer, t) ==
    IF order.customer # customer THEN "WrongCustomer"
    ELSE IF order.state # "delivered" THEN "NotDelivered"
    ELSE IF order.delivered = Null THEN "panic"
    ELSE IF t - order.delivered > ReturnedAt THEN "ReturnExpired"
    ELSE ""

\* lines 292-294
Returned(order, t) ==
    [order EXCEPT !.state = "returned", !.updated = t, !.returned = t]

ReturnDecide(p, order, a) ==
    IF ReturnError(order, a.customer, a.now) # ""
    THEN Finish(p, a, ReturnError(order, a.customer, a.now))
    ELSE Goto(p, "ret_update", a, Returned(order, a.now))

ProcessReturnOrder(p, id, customer) ==
    /\ Begin(p, "ProcessReturnOrder")
    /\ LET r == GetOrder(cache, lruList, id)
       IN  /\ UseCache(r)
           /\ IF r.err = ""
              THEN ReturnDecide(p, r.order, Args(id, customer, now))
              ELSE Goto(p, "ret_repo", Args(id, customer, now), ZeroOrder)
    /\ UNCHANGED <<listVars, refreshVars, consVars, memVars, stopVars, auditVars, outboxVars, now, store, cacheKind, emitted, todo, history>>

ReturnRepo(p) ==
    /\ pc[p] = "ret_repo"
    /\ IF GetByID(arg[p].id) = ZeroOrder
       THEN Finish(p, arg[p], "OrderNotFound")
       ELSE ReturnDecide(p, GetByID(arg[p].id), arg[p])
    /\ UNCHANGED <<listVars, refreshVars, consVars, memVars, stopVars, auditVars, outboxVars, now, store, cacheKind, cache, lruList, op, emitted, todo, history>>

ReturnUpdate(p) ==
    /\ pc[p] = "ret_update"
    /\ Update(p, "ret_cache")
    /\ UNCHANGED <<listVars, refreshVars, consVars, memVars, stopVars, auditVars, outboxVars, now, cacheKind, cache, lruList, op, emitted, todo, history>>

\* cache.DeleteOrder after the store write, then the audit event
ReturnCache(p) ==
    /\ pc[p] = "ret_cache"
    /\ LET r == DeleteOrder(cache, lruList, ord[p].id)
       IN  /\ UseCache(r)
           /\ IF r.err # ""
              THEN Finish(p, arg[p], r.err) /\ emitted' = emitted
              ELSE /\ Finish(p, arg[p], "ok")
                   /\ emitted' = [emitted EXCEPT ![p] =
                          <<ord[p].id, "delivered", "returned">>]
    /\ UNCHANGED <<listVars, refreshVars, consVars, memVars, stopVars, auditVars, outboxVars, now, store, cacheKind, op, todo, history>>

\* ReturnOrderToCourier, lines 180-187
CourierError(order, t) ==
    IF order.state = "delivered" THEN "OrderAlreadyDelivered"
    ELSE IF t < order.deadline /\ order.state # "returned" THEN "DeadlineNotExpired"
    ELSE ""

CourierDecide(p, order, a) ==
    IF CourierError(order, a.now) # ""
    THEN Finish(p, a, CourierError(order, a.now))
    ELSE Goto(p, "rtc_cache", a, order)

ReturnOrderToCourier(p, id) ==
    /\ Begin(p, "ReturnOrderToCourier")
    /\ LET r == GetOrder(cache, lruList, id)
       IN  /\ UseCache(r)
           /\ IF r.err = ""
              THEN CourierDecide(p, r.order, Args(id, 0, now))
              ELSE Goto(p, "rtc_repo", Args(id, 0, now), ZeroOrder)
    /\ UNCHANGED <<listVars, refreshVars, consVars, memVars, stopVars, auditVars, outboxVars, now, store, cacheKind, emitted, todo, history>>

CourierRepo(p) ==
    /\ pc[p] = "rtc_repo"
    /\ IF GetByID(arg[p].id) = ZeroOrder
       THEN Finish(p, arg[p], "OrderNotFound")
       ELSE CourierDecide(p, GetByID(arg[p].id), arg[p])
    /\ UNCHANGED <<listVars, refreshVars, consVars, memVars, stopVars, auditVars, outboxVars, now, store, cacheKind, cache, lruList, op, emitted, todo, history>>

\* lines 191-194: the cache entry is deleted first, and an error ends the call
CourierCache(p) ==
    /\ pc[p] = "rtc_cache"
    /\ LET r == DeleteOrder(cache, lruList, arg[p].id)
       IN  /\ UseCache(r)
           /\ IF r.err # ""
              THEN Finish(p, arg[p], r.err)
              ELSE Goto(p, "rtc_delete", arg[p], ord[p])
    /\ UNCHANGED <<listVars, refreshVars, consVars, memVars, stopVars, auditVars, outboxVars, now, store, cacheKind, op, emitted, todo, history>>

\* PostgresOrderRepository.Delete: locked existence check, then the row goes,
\* whatever state it is in by now.
Delete(id) == [store EXCEPT ![id] = ZeroOrder]

CourierDelete(p) ==
    /\ pc[p] = "rtc_delete"
    /\ IF store[arg[p].id] = ZeroOrder
       THEN Finish(p, arg[p], "OrderNotFound") /\ UNCHANGED <<store, emitted>>
       ELSE /\ Finish(p, arg[p], "ok")
            /\ store' = Delete(arg[p].id)
            /\ emitted' = [emitted EXCEPT ![p] = <<arg[p].id, ord[p].state, "deleted">>]
    /\ UNCHANGED <<listVars, refreshVars, consVars, memVars, stopVars, auditVars, outboxVars, now, cacheKind, cache, lruList, op, todo, history>>

\* GetOrderByID: a cache hit is returned as is; a row read from the store is
\* cached unless it is returned or its deadline has passed (SetOrder's error
\* is only logged).
GetOrderByID(p, id) ==
    /\ Begin(p, "GetOrderByID")
    /\ LET r == GetOrder(cache, lruList, id)
       IN  /\ UseCache(r)
           /\ IF r.err = ""
              THEN FinishWith(p, Args(id, 0, 0), "ok", r.order)
              ELSE Goto(p, "get_repo", Args(id, 0, 0), ZeroOrder)
    /\ UNCHANGED <<listVars, refreshVars, consVars, memVars, stopVars, auditVars, outboxVars, now, store, cacheKind, emitted, todo, history>>

GetRepo(p) ==
    /\ pc[p] = "get_repo"
    /\ LET order == GetByID(arg[p].id)
       IN  IF order = ZeroOrder
           THEN Finish(p, arg[p], "OrderNotFound")
           ELSE IF order.state # "returned" /\ order.deadline > now
           THEN Goto(p, "get_cache", arg[p], order)
           ELSE FinishWith(p, arg[p], "ok", order)
    /\ UNCHANGED <<listVars, refreshVars, consVars, memVars, stopVars, auditVars, outboxVars, now, store, cacheKind, cache, lruList, op, emitted, todo, history>>

GetCache(p) ==
    /\ pc[p] = "get_cache"
    /\ UseCache(SetOrder(cache, lruList, ord[p]))
    /\ FinishWith(p, arg[p], "ok", ord[p])
    /\ UNCHANGED <<listVars, refreshVars, consVars, memVars, stopVars, auditVars, outboxVars, now, store, cacheKind, op, emitted, todo, history>>

\* PostgresOrderRepository.List(""): every row, ORDER BY updated_at DESC
\* (rows with equal updated_at come in either order)
StoredIds == {i \in OrderIds : store[i] # ZeroOrder}

List ==
    {s \in [1..Cardinality(StoredIds) -> StoredIds] :
        /\ \A i, j \in DOMAIN s : i # j => s[i] # s[j]
        /\ \A i, j \in DOMAIN s : i < j => store[s[i]].updated >= store[s[j]].updated}

\* ClearDatabase: list, delete row by row, then clear the order cache
ClearDatabase(p) ==
    /\ Begin(p, "ClearDatabase")
    /\ \E s \in List : todo' = [todo EXCEPT ![p] = s]
    /\ Goto(p, "clr_delete", NoArg, ZeroOrder)
    /\ UNCHANGED <<listVars, refreshVars, consVars, memVars, stopVars, auditVars, outboxVars, now, store, cacheKind, cache, lruList, emitted, history>>

ClearDelete(p) ==
    /\ pc[p] = "clr_delete"
    /\ todo[p] # <<>>
    /\ IF store[Head(todo[p])] = ZeroOrder
       THEN /\ Finish(p, Args(Head(todo[p]), 0, 0), "OrderNotFound")
            /\ store' = store
            /\ todo' = [todo EXCEPT ![p] = <<>>]
       ELSE /\ Goto(p, "clr_delete", arg[p], ord[p])
            /\ store' = Delete(Head(todo[p]))
            /\ todo' = [todo EXCEPT ![p] = Tail(todo[p])]
    /\ UNCHANGED <<listVars, refreshVars, consVars, memVars, stopVars, auditVars, outboxVars, now, cacheKind, cache, lruList, op, emitted, history>>

ClearCache(p) ==
    /\ pc[p] = "clr_delete"
    /\ todo[p] = <<>>
    /\ UseCache(ClearOrderCache(cache, lruList, history))
    /\ history' = ClearOrderCache(cache, lruList, history).history
    /\ Finish(p, NoArg, "ok")
    /\ UNCHANGED <<listVars, refreshVars, consVars, memVars, stopVars, auditVars, outboxVars, now, store, cacheKind, op, emitted, todo>>

\* GetOrderHistory: the snapshot, or ErrHistoryNotFoundInCache when there is
\* none or (in-process backend) its TTL has elapsed
GetOrderHistory ==
    IF history = NoHistory \/ now > history.ttl
    THEN [err |-> "HistoryNotFoundInCache", orders |-> {}]
    ELSE [err |-> "", orders |-> history.orders]

\* OrderHistory: the snapshot when there is no search term and the cache has
\* one, the repository's list otherwise
OrderHistory(p, search) ==
    /\ Begin(p, "OrderHistory")
    /\ IF search = "" /\ GetOrderHistory.err # ""
       THEN Goto(p, "hist_repo", NoArg, ZeroOrder)
       ELSE Finish(p, NoArg, "ok")
    /\ UNCHANGED <<listVars, refreshVars, consVars, memVars, stopVars, auditVars, outboxVars, now, store, cacheKind, cache, lruList, emitted, todo, history>>

HistoryRepo(p) ==
    /\ pc[p] = "hist_repo"
    /\ Finish(p, NoArg, "ok")
    /\ UNCHANGED <<listVars, refreshVars, consVars, memVars, stopVars, auditVars, outboxVars, now, store, cacheKind, cache, lruList, op, emitted, todo, history>>

\* the caller takes the result; the goroutine is free for the next request
Return(p) ==
    /\ pc[p] = "done"
    /\ pc' = [pc EXCEPT ![p] = "idle"]
    /\ op' = [op EXCEPT ![p] = ""]
    /\ arg' = [arg EXCEPT ![p] = NoArg]
    /\ ord' = [ord EXCEPT ![p] = ZeroOrder]
    /\ res' = [res EXCEPT ![p] = ""]
    /\ emitted' = [emitted EXCEPT ![p] = NoEvent]
    /\ todo' = [todo EXCEPT ![p] = <<>>]
    /\ UNCHANGED <<listVars, refreshVars, consVars, memVars, stopVars, auditVars, outboxVars, now, store, cacheKind, cache, lruList, history>>

\* cleanupExpiredOrders (in-process backend): entries and the snapshot whose
\* TTL has elapsed are dropped
Reaper ==
    /\ cacheKind = "inmem"
    /\ cache' = [i \in OrderIds |->
                    IF cache[i] # NoEntry /\ now > cache[i].ttl THEN NoEntry ELSE cache[i]]
    /\ lruList' = SelectSeq(lruList, LAMBDA i : cache'[i] # NoEntry)
    /\ history' = IF history # NoHistory /\ now > history.ttl THEN NoHistory ELSE history
    /\ <<cache', history'>> # <<cache, history>>
    /\ UNCHANGED <<listVars, refreshVars, consVars, memVars, stopVars, auditVars, outboxVars, now, store, cacheKind, pc, op, arg, ord, res, emitted, todo>>

\* time passes; Redis drops the keys whose TTL has elapsed
Tick ==
    /\ now < MaxTime
    /\ now' = now + 1
    /\ cache' = IF cacheKind = "redis" THEN RedisExpire(cache, now') ELSE cache
    /\ history' = IF cacheKind = "redis" /\ history # NoHistory /\ history.ttl <= now'
                  THEN NoHistory ELSE history
    /\ UNCHANGED <<listVars, refreshVars, consVars, memVars, stopVars, auditVars, outboxVars, store, cacheKind, lruList, pc, op, arg, ord, res, emitted, todo>>

\* ------------------------------------------------------------------ inputs
AcceptIds == 0..NumOrders
AcceptCustomers == {0, 1}
Deadlines == {1}
\* thousandths of a kilogram and of a monetary unit
Weights == {0, 4}
Costs == {0, 100000}
Searches == {"", "1"}

OrderInit ==
    /\ now = 0
    /\ store = [i \in OrderIds |-> ZeroOrder]
    /\ cacheKind \in {"redis", "inmem"}
    /\ cache = [i \in OrderIds |-> NoEntry]
    /\ lruList = <<>>
    /\ pc = [p \in Callers |-> "idle"]
    /\ op = [p \in Callers |-> ""]
    /\ arg = [p \in Callers |-> NoArg]
    /\ ord = [p \in Callers |-> ZeroOrder]
    /\ res = [p \in Callers |-> ""]
    /\ emitted = [p \in Callers |-> NoEvent]
    /\ todo = [p \in Callers |-> <<>>]
    /\ history = [orders |-> {}, ttl |-> HistoryTTL]

OrderNext ==
    \/ \E p \in Callers, id \in AcceptIds, c \in AcceptCustomers,
          d \in Deadlines, w \in Weights, k \in Costs : AcceptOrder(p, id, c, d, w, k)
    \/ \E p \in Callers : AcceptCreate(p)
    \/ \E p \in Callers : AcceptInsert(p)
    \/ \E p \in Callers : AcceptCache(p)
    \/ \E p \in Callers, id \in OrderIds, c \in Customers : DeliverOrder(p, id, c)
    \/ \E p \in Callers : DeliverRepo(p)
    \/ \E p \in Callers : DeliverUpdate(p)
    \/ \E p \in Callers : DeliverCache(p)
    \/ \E p \in Callers, id \in OrderIds, c \in Customers : ProcessReturnOrder(p, id, c)
    \/ \E p \in Callers : ReturnRepo(p)
    \/ \E p \in Callers : ReturnUpdate(p)
    \/ \E p \in Callers : ReturnCache(p)
    \/ \E p \in Callers, id \in OrderIds : ReturnOrderToCourier(p, id)
    \/ \E p \in Callers : CourierRepo(p)
    \/ \E p \in Callers : CourierCache(p)
    \/ \E p \in Callers : CourierDelete(p)
    \/ \E p \in Callers, id \in OrderIds : GetOrderByID(p, id)
    \/ \E p \in Callers : GetRepo(p)
    \/ \E p \in Callers : GetCache(p)
    \/ \E p \in Callers : ClearDatabase(p)
    \/ \E p \in Callers : ClearDelete(p)
    \/ \E p \in Callers : ClearCache(p)
    \/ \E p \in Callers, s \in Searches : OrderHistory(p, s)
    \/ \E p \in Callers : HistoryRepo(p)
    \/ \E p \in Callers : Return(p)
    \/ Reaper
    \/ Tick

\* the service's operations and the import of order files
ImportNext ==
    \/ OrderNext
    \/ \E p \in Callers, id \in OrderIds, d \in Deadlines :
           AcceptOrdersFromFile(p, id, 1, d, 4, 100000)
    \/ \E p \in Callers : FileAcceptCache(p)
    \/ \E p \in Callers : FileLog(p)

\* ------------------------------------------------------------ audit logger
\* Events are numbered in the order they are passed to Log.
MaxEvents == 3
Events == 1..MaxEvents
\* Capacity of mainLogCh and of each pool's inputCh (maxLogChanSize in the
\* program), scaled down.
ChanSize == 1
\* WorkerPool.batchSize and workersNum, scaled down.
BatchSize == 2
WorkersNum == 1
Workers == 1..WorkersNum
\* AuditLogger.workerPools, in the order NewAuditLogger appends them
PoolOrder == <<"stdout", "db">>
Pools == {"stdout", "db"}

\* Every caller of Log passes the request's c.UserContext(), which nothing
\* ever sets: it is the background context and is never done.
CallerCtxDone == {FALSE}

\* a send that waits for room instead of falling through to default
BlockingSelect(canSend, ctxDone) ==
    (IF canSend THEN {"send"} ELSE {}) \cup (IF ctxDone THEN {"done"} ELSE {})

\* The select of Log and of tryFlushOverflow: one of the ready cases, default
\* only when none is ready.
LogSelect(canSend, ctxDone) ==
    IF canSend \/ ctxDone
    THEN (IF canSend THEN {"send"} ELSE {}) \cup (IF ctxDone THEN {"done"} ELSE {})
    ELSE {"default"}

\* an event that is not put back when the mailbox has no room
PushFrontLost(list, log) == list

\* overflow.PushFront(log)
PushFront(list, log) == <<log>> \o list

\* overflow.PushBack(log)
PushBack(list, log) == Append(list, log)

LogReturn(p) ==
    /\ logPc' = [logPc EXCEPT ![p] = "idle"]
    /\ logEv' = [logEv EXCEPT ![p] = 0]
    /\ logCtx' = [logCtx EXCEPT ![p] = FALSE]

\* a caller enters Log with the next event
Log(p, ctxDone) ==
    /\ logPc[p] = "idle"
    /\ \A q \in Callers : logPc[q] = "idle" => \neg Before(q, p)
    /\ passed < MaxEvents
    /\ passed' = passed + 1
    /\ logPc' = [logPc EXCEPT ![p] = "select"]
    /\ logEv' = [logEv EXCEPT ![p] = passed + 1]
    /\ logCtx' = [logCtx EXCEPT ![p] = ctxDone]
    /\ UNCHANGED <<listVars, refreshVars, consVars, memVars, stopVars, ordVars, outboxVars, mainLogCh, overflow, mu, spilled, fanPc, fanLog,
                   fanIdx, inputCh, batch, handed, flushPc, flushLog, mailed, inboxed>>

\* the select statement of Log
LogSend(p) ==
    /\ logPc[p] = "select"
    /\ \E branch \in LogSelect(Len(mainLogCh) < ChanSize, logCtx[p]) :
          \/ /\ branch = "send"
             /\ mainLogCh' = Append(mainLogCh, logEv[p])
             /\ mailed' = Append(mailed, logEv[p])
             /\ LogReturn(p)
          \/ /\ branch = "done"
             /\ UNCHANGED <<mainLogCh, mailed>>
             /\ LogReturn(p)
          \/ /\ branch = "default"
             /\ UNCHANGED <<mainLogCh, mailed>>
             /\ logPc' = [logPc EXCEPT ![p] = "lock"]
             /\ UNCHANGED <<logEv, logCtx>>
    /\ UNCHANGED <<listVars, refreshVars, consVars, memVars, stopVars, ordVars, outboxVars, overflow, mu, passed, spilled, fanPc, fanLog,
                   fanIdx, inputCh, batch, handed, flushPc, flushLog, inboxed>>

\* l.logQueue.mu.Lock()
LogLock(p) ==
    /\ logPc[p] = "lock"
    /\ mu = "free"
    /\ mu' = "locked"
    /\ logPc' = [logPc EXCEPT ![p] = "push"]
    /\ UNCHANGED <<listVars, refreshVars, consVars, memVars, stopVars, ordVars, outboxVars, mainLogCh, overflow, logEv, logCtx, passed, spilled,
                   fanPc, fanLog, fanIdx, inputCh, batch, handed, flushPc, flushLog, mailed, inboxed>>

\* overflow.PushBack(log), and the deferred Unlock as Log returns
LogPush(p) ==
    /\ logPc[p] = "push"
    /\ overflow' = PushBack(overflow, logEv[p])
    /\ spilled' = spilled \cup {logEv[p]}
    /\ mu' = "free"
    /\ LogReturn(p)
    /\ UNCHANGED <<listVars, refreshVars, consVars, memVars, stopVars, ordVars, outboxVars, mainLogCh, passed, fanPc, fanLog, fanIdx,
                   inputCh, batch, handed, flushPc, flushLog, mailed, inboxed>>

\* fanOutLogs: receive the next event from mainLogCh
FanRecv ==
    /\ fanPc = "recv"
    /\ mainLogCh # <<>>
    /\ fanLog' = Head(mainLogCh)
    /\ mainLogCh' = Tail(mainLogCh)
    /\ fanPc' = "send"
    /\ fanIdx' = 1
    /\ UNCHANGED <<listVars, refreshVars, consVars, memVars, stopVars, ordVars, outboxVars, overflow, mu, logPc, logEv, logCtx, passed, spilled,
                   inputCh, batch, handed, flushPc, flushLog, mailed, inboxed>>

\* a fan-out that skips a pool whose inputCh is full instead of blocking
FanSendNonBlocking ==
    /\ fanPc = "send"
    /\ IF Len(inputCh[PoolOrder[fanIdx]]) < ChanSize
       THEN /\ inputCh' = [inputCh EXCEPT ![PoolOrder[fanIdx]] = Append(@, fanLog)]
            /\ inboxed' = [inboxed EXCEPT ![PoolOrder[fanIdx]] = Append(@, fanLog)]
       ELSE UNCHANGED <<inputCh, inboxed>>
    /\ IF fanIdx < Len(PoolOrder)
       THEN fanIdx' = fanIdx + 1 /\ UNCHANGED <<fanPc, fanLog>>
       ELSE fanIdx' = 0 /\ fanPc' = "recv" /\ fanLog' = 0
    /\ UNCHANGED <<listVars, refreshVars, consVars, memVars, stopVars, ordVars, outboxVars, mainLogCh, overflow, mu, logPc, logEv, logCtx, passed,
                   spilled, batch, handed, flushPc, flushLog, mailed>>

\* fanOutLogs: the blocking send of the event to the next pool's inputCh
FanSend ==
    /\ fanPc = "send"
    /\ Len(inputCh[PoolOrder[fanIdx]]) < ChanSize
    /\ inputCh' = [inputCh EXCEPT ![PoolOrder[fanIdx]] = Append(@, fanLog)]
    /\ inboxed' = [inboxed EXCEPT ![PoolOrder[fanIdx]] = Append(@, fanLog)]
    /\ IF fanIdx < Len(PoolOrder)
       THEN fanIdx' = fanIdx + 1 /\ UNCHANGED <<fanPc, fanLog>>
       ELSE fanIdx' = 0 /\ fanPc' = "recv" /\ fanLog' = 0
    /\ UNCHANGED <<listVars, refreshVars, consVars, memVars, stopVars, ordVars, outboxVars, mainLogCh, overflow, mu, logPc, logEv, logCtx, passed,
                   spilled, batch, handed, flushPc, flushLog, mailed>>

Count(seq, e) == Cardinality({i \in DOMAIN seq : seq[i] = e})

\* pool.processor.processLogs(ctx, name, batch)
ProcessLogs(h, k, b) == [h EXCEPT ![k] = [e \in Events |-> @[e] + Count(b, e)]]

\* worker: an event arrives on inputCh; a full batch goes to the processor
WorkerRecv(k, w) ==
    /\ inputCh[k] # <<>>
    /\ inputCh' = [inputCh EXCEPT ![k] = Tail(@)]
    /\ LET b == Append(batch[k][w], Head(inputCh[k]))
       IN  IF Len(b) >= BatchSize
           THEN /\ handed' = ProcessLogs(handed, k, b)
                /\ batch' = [batch EXCEPT ![k][w] = <<>>]
           ELSE /\ handed' = handed
                /\ batch' = [batch EXCEPT ![k][w] = b]
    /\ UNCHANGED <<listVars, refreshVars, consVars, memVars, stopVars, ordVars, outboxVars, mainLogCh, overflow, mu, logPc, logEv, logCtx, passed,
                   spilled, fanPc, fanLog, fanIdx, flushPc, flushLog, mailed, inboxed>>

\* worker: the batch timer fires with a partial batch
WorkerTimer(k, w) ==
    /\ batch[k][w] # <<>>
    /\ handed' = ProcessLogs(handed, k, batch[k][w])
    /\ batch' = [batch EXCEPT ![k][w] = <<>>]
    /\ UNCHANGED <<listVars, refreshVars, consVars, memVars, stopVars, ordVars, outboxVars, mainLogCh, overflow, mu, logPc, logEv, logCtx, passed,
                   spilled, fanPc, fanLog, fanIdx, inputCh, flushPc, flushLog, mailed, inboxed>>

\* processOverflow: the 100 ms ticker fires and tryFlushOverflow starts
FlushTick ==
    /\ flushPc = "sleep"
    /\ flushPc' = "lock"
    /\ UNCHANGED <<listVars, refreshVars, consVars, memVars, stopVars, ordVars, outboxVars, mainLogCh, overflow, mu, logPc, logEv, logCtx, passed,
                   spilled, fanPc, fanLog, fanIdx, inputCh, batch, handed, flushLog, mailed, inboxed>>

\* tryFlushOverflow: mu.Lock() at the top of the loop
FlushLock ==
    /\ flushPc = "lock"
    /\ mu = "free"
    /\ mu' = "locked"
    /\ flushPc' = "take"
    /\ UNCHANGED <<listVars, refreshVars, consVars, memVars, stopVars, ordVars, outboxVars, mainLogCh, overflow, logPc, logEv, logCtx, passed,
                   spilled, fanPc, fanLog, fanIdx, inputCh, batch, handed, flushLog, mailed, inboxed>>

\* tryFlushOverflow: return on an empty list, else take the front; Unlock
FlushTake ==
    /\ flushPc = "take"
    /\ mu' = "free"
    /\ IF overflow = <<>>
       THEN flushPc' = "sleep" /\ UNCHANGED <<overflow, flushLog>>
       ELSE /\ flushLog' = Head(overflow)
            /\ overflow' = Tail(overflow)
            /\ flushPc' = "send"
    /\ UNCHANGED <<listVars, refreshVars, consVars, memVars, stopVars, ordVars, outboxVars, mainLogCh, logPc, logEv, logCtx, passed, spilled,
                   fanPc, fanLog, fanIdx, inputCh, batch, handed, mailed, inboxed>>

\* tryFlushOverflow: the select that offers the event to mainLogCh; the
\* logger's own context is not done while the logger runs
FlushSend ==
    /\ flushPc = "send"
    /\ \E branch \in LogSelect(Len(mainLogCh) < ChanSize, FALSE) :
          \/ /\ branch = "send"
             /\ mainLogCh' = Append(mainLogCh, flushLog)
             /\ mailed' = Append(mailed, flushLog)
             /\ flushLog' = 0
             /\ flushPc' = "lock"
          \/ /\ branch = "default"
             /\ flushPc' = "relock"
             /\ UNCHANGED <<mainLogCh, flushLog, mailed>>
    /\ UNCHANGED <<listVars, refreshVars, consVars, memVars, stopVars, ordVars, outboxVars, overflow, mu, logPc, logEv, logCtx, passed, spilled,
                   fanPc, fanLog, fanIdx, inputCh, batch, handed, inboxed>>

\* tryFlushOverflow: mu.Lock() before putting the event back
FlushRelock ==
    /\ flushPc = "relock"
    /\ mu = "free"
    /\ mu' = "locked"
    /\ flushPc' = "putback"
    /\ UNCHANGED <<listVars, refreshVars, consVars, memVars, stopVars, ordVars, outboxVars, mainLogCh, overflow, logPc, logEv, logCtx, passed,
                   spilled, fanPc, fanLog, fanIdx, inputCh, batch, handed, flushLog, mailed, inboxed>>

\* tryFlushOverflow: PushFront, Unlock, return
FlushPutBack ==
    /\ flushPc = "putback"
    /\ overflow' = PushFront(overflow, flushLog)
    /\ flushLog' = 0
    /\ mu' = "free"
    /\ flushPc' = "sleep"
    /\ UNCHANGED <<listVars, refreshVars, consVars, memVars, stopVars, ordVars, outboxVars, mainLogCh, logPc, logEv, logCtx, passed, spilled,
                   fanPc, fanLog, fanIdx, inputCh, batch, handed, mailed, inboxed>>

\* ------------------------------------------------- audit logger: Shutdown
\* the process has crashed: tryFlushOverflow sent on the closed mainLogCh
Panicked == flushPc = "panic"

\* Shutdown, l.cancel(); the callers of Log have all returned
Cancel ==
    /\ shutPc = "run"
    /\ \A p \in Callers : logPc[p] = "idle"
    /\ cancelled' = TRUE
    /\ shutPc' = "close"
    /\ UNCHANGED <<listVars, refreshVars, consVars, memVars, ordVars, auditVars, outboxVars, chClosed, inClosed, workerDone, printed>>

\* Shutdown, close(l.mainLogCh)
CloseMain ==
    /\ shutPc = "close" /\ \neg Panicked
    /\ chClosed' = TRUE
    /\ shutPc' = "waitFan"
    /\ UNCHANGED <<listVars, refreshVars, consVars, memVars, ordVars, auditVars, outboxVars, cancelled, inClosed, workerDone, printed>>

\* Shutdown, l.fanOutWg.Wait()
WaitFan ==
    /\ shutPc = "waitFan" /\ \neg Panicked
    /\ fanPc = "exit"
    /\ shutPc' = "waitPools"
    /\ UNCHANGED <<listVars, refreshVars, consVars, memVars, ordVars, auditVars, outboxVars, cancelled, chClosed, inClosed, workerDone, printed>>

\* Shutdown, pool.wg.Wait() for every pool
WaitPools ==
    /\ shutPc = "waitPools" /\ \neg Panicked
    /\ \A k \in Pools, w \in Workers : workerDone[k][w]
    /\ shutPc' = "waitOverflow"
    /\ UNCHANGED <<listVars, refreshVars, consVars, memVars, ordVars, auditVars, outboxVars, cancelled, chClosed, inClosed, workerDone, printed>>

\* Shutdown, l.logQueue.overflowWg.Wait(), and the return
WaitOverflow ==
    /\ shutPc = "waitOverflow" /\ \neg Panicked
    /\ flushPc = "exit"
    /\ shutPc' = "returned"
    /\ UNCHANGED <<listVars, refreshVars, consVars, memVars, ordVars, auditVars, outboxVars, cancelled, chClosed, inClosed, workerDone, printed>>

\* fanOutLogs, the outer select: mainLogCh is closed and drained (!ok), or
\* ctx.Done() is taken, whatever mainLogCh still holds; both close every
\* pool's inputCh and return
FanStop ==
    /\ fanPc = "recv" /\ \neg Panicked
    /\ (chClosed /\ mainLogCh = <<>>) \/ cancelled
    /\ inClosed' = [k \in Pools |-> TRUE]
    /\ fanPc' = "exit"
    /\ UNCHANGED <<listVars, refreshVars, consVars, memVars, ordVars, outboxVars, mainLogCh, overflow, mu, logPc, logEv, logCtx,
                   passed, spilled, fanLog, fanIdx, inputCh, batch, handed, flushPc, flushLog,
                   cancelled, chClosed, shutPc, workerDone, printed, mailed, inboxed>>

\* fanOutLogs, the inner select: ctx.Done() is taken instead of the send, and
\* the goroutine returns with the event in hand and the inboxes open
FanSendStop ==
    /\ fanPc = "send" /\ \neg Panicked
    /\ cancelled
    /\ fanPc' = "exit"
    /\ UNCHANGED <<listVars, refreshVars, consVars, memVars, ordVars, outboxVars, mainLogCh, overflow, mu, logPc, logEv, logCtx,
                   passed, spilled, fanLog, fanIdx, inputCh, batch, handed, flushPc, flushLog,
                   stopVars, mailed, inboxed>>

\* worker: inputCh is closed and drained (!ok), or ctx.Done() is taken,
\* whatever inputCh still holds; a partial batch goes to the processor and
\* the goroutine returns
WorkerStop(k, w) ==
    /\ \neg workerDone[k][w] /\ \neg Panicked
    /\ (inClosed[k] /\ inputCh[k] = <<>>) \/ cancelled
    /\ handed' = ProcessLogs(handed, k, batch[k][w])
    /\ batch' = [batch EXCEPT ![k][w] = <<>>]
    /\ workerDone' = [workerDone EXCEPT ![k][w] = TRUE]
    /\ UNCHANGED <<listVars, refreshVars, consVars, memVars, ordVars, outboxVars, mainLogCh, overflow, mu, logPc, logEv, logCtx,
                   passed, spilled, fanPc, fanLog, fanIdx, inputCh, flushPc, flushLog,
                   cancelled, chClosed, inClosed, shutPc, printed, mailed, inboxed>>

\* processOverflow: ctx.Done() is seen between two rounds;
\* tryFlushOverflowOnShutdown prints what the list holds and empties it
FlushOnShutdown ==
    /\ flushPc = "sleep"
    /\ cancelled
    /\ mu = "free"
    /\ printed' = printed \cup {overflow[i] : i \in DOMAIN overflow}
    /\ overflow' = <<>>
    /\ flushPc' = "exit"
    /\ UNCHANGED <<listVars, refreshVars, consVars, memVars, ordVars, outboxVars, mainLogCh, mu, logPc, logEv, logCtx, passed,
                   spilled, fanPc, fanLog, fanIdx, inputCh, batch, handed, flushLog,
                   cancelled, chClosed, inClosed, shutPc, workerDone, mailed, inboxed>>

\* tryFlushOverflow, the select, once the context is cancelled: ctx.Done()
\* puts the event back; the send case, taken on the closed channel, panics
FlushSendStop ==
    /\ flushPc = "send"
    /\ cancelled
    /\ \/ flushPc' = "relock"
       \/ chClosed /\ flushPc' = "panic"
    /\ UNCHANGED <<listVars, refreshVars, consVars, memVars, ordVars, outboxVars, mainLogCh, overflow, mu, logPc, logEv, logCtx,
                   passed, spilled, fanPc, fanLog, fanIdx, inputCh, batch, handed, flushLog,
                   stopVars, mailed, inboxed>>

StopInit ==
    /\ cancelled = FALSE
    /\ chClosed = FALSE
    /\ inClosed = [k \in Pools |-> FALSE]
    /\ shutPc = "run"
    /\ workerDone = [k \in Pools |-> [w \in Workers |-> FALSE]]
    /\ printed = {}

\* the logger from its construction to the return of Shutdown: Log is called
\* only before Shutdown, a goroutine that has returned takes no step, and
\* nothing runs after a panic
ShutdownNext ==
    \/ \E p \in Callers, c \in CallerCtxDone : shutPc = "run" /\ Log(p, c)
    \/ \E p \in Callers : LogSend(p)
    \/ \E p \in Callers : LogLock(p)
    \/ \E p \in Callers : LogPush(p)
    \/ \neg Panicked /\ FanRecv
    \/ \neg Panicked /\ FanSend
    \/ FanStop
    \/ FanSendStop
    \/ \E k \in Pools, w \in Workers : \neg workerDone[k][w] /\ \neg Panicked /\ WorkerRecv(k, w)
    \/ \E k \in Pools, w \in Workers : \neg workerDone[k][w] /\ \neg Panicked /\ WorkerTimer(k, w)
    \/ \E k \in Pools, w \in Workers : WorkerStop(k, w)
    \/ \neg cancelled /\ FlushTick
    \/ FlushLock
    \/ FlushTake
    \/ \neg chClosed /\ FlushSend
    \/ FlushSendStop
    \/ FlushRelock
    \/ FlushPutBack
    \/ FlushOnShutdown
    \/ Cancel
    \/ CloseMain
    \/ WaitFan
    \/ WaitPools
    \/ WaitOverflow

AuditInit ==
    /\ mainLogCh = <<>>
    /\ overflow = <<>>
    /\ mu = "free"
    /\ logPc = [p \in Callers |-> "idle"]
    /\ logEv = [p \in Callers |-> 0]
    /\ logCtx = [p \in Callers |-> FALSE]
    /\ passed = 0
    /\ spilled = {}
    /\ fanPc = "recv"
    /\ fanLog = 0
    /\ fanIdx = 0
    /\ inputCh = [k \in Pools |-> <<>>]
    /\ batch = [k \in Pools |-> [w \in Workers |-> <<>>]]
    /\ handed = [k \in Pools |-> [e \in Events |-> 0]]
    /\ flushPc = "sleep"
    /\ flushLog = 0
    /\ mailed = <<>>
    /\ inboxed = [k \in Pools |-> <<>>]

AuditNext ==
    \/ \E p \in Callers, c \in CallerCtxDone : Log(p, c)
    \/ \E p \in Callers : LogSend(p)
    \/ \E p \in Callers : LogLock(p)
    \/ \E p \in Callers : LogPush(p)
    \/ FanRecv
    \/ FanSend
    \/ \E k \in Pools, w \in Workers : WorkerRecv(k, w)
    \/ \E k \in Pools, w \in Workers : WorkerTimer(k, w)
    \/ FlushTick
    \/ FlushLock
    \/ FlushTake
    \/ FlushSend
    \/ FlushRelock
    \/ FlushPutBack

\* the logger with one goroutine calling Log: its calls follow one another
OneCallerNext == AuditNext /\ \A p \in Callers : p # 1 => logPc'[p] = "idle"

\* -------------------------------------------------------- outbox dispatcher
\* The database clock runs over 0..MaxClock ticks of two seconds.
MaxClock == 2
NumTasks == 2
TaskIds == 1..NumTasks
\* OutboxWorkerPool.batchSize, scaled down.
OutboxBatchSize == 2
OutboxWorkers == {1, 2}
\* attempts_left INT NOT NULL DEFAULT 3
DefaultAttempts == 3
\* NOW() + INTERVAL '2 seconds': one tick
RetryDelay == 1

NoTask ==
    [log |-> 0, status |-> "", attempts |-> 0, next |-> Null, created |-> Null,
     completed |-> Null]

\* INSERT INTO audit_tasks (log_id): a row with the table's defaults
NewTask(t, l) ==
    [log |-> l, status |-> "CREATED", attempts |-> DefaultAttempts, next |-> Null,
     created |-> t, completed |-> Null]

\* a reservation filter that only leaves out rows being processed
SelectableStale(task, t) == task.status \notin {"", "PROCESSING"}

\* a reservation filter that also takes rows another worker is processing
SelectableProcessing(task, t) == task.status \in {"CREATED", "FAILED", "PROCESSING"}

\* FetchTasksIDs, the WHERE clause of the inner SELECT
Selectable(task, t) ==
    \/ task.status = "CREATED"
    \/ /\ task.status = "FAILED"
       /\ task.attempts > 0
       /\ task.next = Null \/ task.next <= t

Range(seq) == {seq[i] : i \in DOMAIN seq}

\* FetchTasksIDs: up to limit selectable rows, ORDER BY created_at (rows
\* created together come in either order)
FetchTasksIDs(limit) ==
    LET ready == {i \in TaskIds : Selectable(tasks[i], clock)}
        n == Min(limit, Cardinality(ready))
    IN  {s \in [1..n -> ready] :
            /\ \A i, j \in 1..n : i # j => s[i] # s[j]
            /\ \A i, j \in 1..n : i < j => tasks[s[i]].created <= tasks[s[j]].created
            /\ \A i \in ready : i \notin Range(s) =>
                   \A j \in 1..n : tasks[s[j]].created <= tasks[i].created}

\* a failure mark that compares the decremented counter with the wrong bound
MarkFailedOffByOne(task, t) ==
    [task EXCEPT !.status = IF task.attempts > 2 THEN "FAILED" ELSE "NO_ATTEMPTS_LEFT",
                 !.attempts = task.attempts - 1,
                 !.next = IF task.attempts > 2 THEN t + RetryDelay ELSE Null]

\* MarkTaskFailed, the UPDATE: the CASE expressions read the old attempts_left
MarkFailed(task, t) ==
    [task EXCEPT !.status = IF task.attempts > 1 THEN "FAILED" ELSE "NO_ATTEMPTS_LEFT",
                 !.attempts = task.attempts - 1,
                 !.next = IF task.attempts > 1 THEN t + RetryDelay ELSE Null]

\* a completion mark that leaves completed_at as it was
MarkCompletedUnstamped(task, t) == [task EXCEPT !.status = "COMPLETED"]

\* MarkTaskCompleted, the UPDATE
MarkCompleted(task, t) == [task EXCEPT !.status = "COMPLETED", !.completed = t]

\* The two tables as a transaction sees them: the committed rows and its own.
Tables == [logs |-> logs, tasks |-> tasks, created |-> created]

\* createLogs: the batch's INSERT ... RETURNING id statements run in the
\* transaction; the first a rows are inserted before one fails (a = n: none fails)
createLogs(tx, n, a) ==
    LET ids == {i \in TaskIds : Cardinality(tx.logs) < i /\ i <= Cardinality(tx.logs) + a}
    IN  [tx |-> [tx EXCEPT !.logs = tx.logs \cup ids],
         logIDs |-> ids,
         err |-> IF a < n THEN "createLogs" ELSE ""]

\* createTasks: one INSERT INTO audit_tasks (log_id) per returned log id; the
\* first b rows are inserted before one fails (b = number of ids: none fails)
createTasks(tx, logIDs, b) ==
    LET done == {l \in logIDs : Cardinality({k \in logIDs : k < l}) < b}
        idOf(l) == tx.created + Cardinality({k \in logIDs : k < l}) + 1
    IN  [tx |-> [tx EXCEPT !.created = tx.created + Cardinality(done),
                           !.tasks = [i \in TaskIds |->
                               IF \E l \in done : idOf(l) = i
                               THEN NewTask(clock, CHOOSE l \in done : idOf(l) = i)
                               ELSE tx.tasks[i]]],
         err |-> IF b < Cardinality(logIDs) THEN "createTasks" ELSE ""]

\* a transaction whose statements are committed one by one
RollbackKeepsWrites(db, tx) == tx

\* defer tx.Rollback(ctx): what the transaction wrote is discarded
Rollback(db, tx) == db

\* CreateLogsWithTasks on the tables db: begin, createLogs, createTasks,
\* commit; any error ends the call and the deferred Rollback runs
LogsWithTasks(db, n, a, b, commits) ==
    LET r1 == createLogs(db, n, a)
        r2 == createTasks(r1.tx, r1.logIDs, b)
    IN  IF r1.err # "" THEN [db |-> Rollback(db, r1.tx), err |-> r1.err]
        ELSE IF r2.err # "" THEN [db |-> Rollback(db, r2.tx), err |-> r2.err]
        ELSE IF \neg commits THEN [db |-> Rollback(db, r2.tx), err |-> "commit"]
        ELSE [db |-> r2.tx, err |-> ""]

\* dbLogProcessor.processLogs: CreateLogsWithTasks for a batch of n logs
CreateLogsWithTasks(n) ==
    /\ created + n <= NumTasks
    /\ \E a \in 0..n, b \in 0..n, commits \in BOOLEAN :
          LET r == LogsWithTasks(Tables, n, a, b, commits)
          IN  /\ logs' = r.db.logs
              /\ tasks' = r.db.tasks
              /\ created' = r.db.created
              /\ createErr' = r.err
    /\ UNCHANGED <<listVars, refreshVars, consVars, memVars, stopVars, ordVars, auditVars, clock, wpc, wbatch, published, failures>>

\* processOutboxBatch: FetchTasksIDs reserves a batch (an empty result or an
\* error ends the call with nothing changed)
Fetch(w) ==
    /\ wpc[w] = "idle"
    /\ \A v \in OutboxWorkers : wpc[v] = "idle" => \neg Before(v, w)
    /\ \E s \in FetchTasksIDs(OutboxBatchSize) :
          /\ s # <<>>
          /\ tasks' = [i \in TaskIds |->
                          IF i \in Range(s) THEN [tasks[i] EXCEPT !.status = "PROCESSING"]
                          ELSE tasks[i]]
          /\ wbatch' = [wbatch EXCEPT ![w] = s]
    /\ wpc' = [wpc EXCEPT ![w] = "get"]
    /\ UNCHANGED <<listVars, refreshVars, consVars, memVars, stopVars, ordVars, auditVars, logs, createErr, clock, created, published, failures>>

\* GetAuditLog for the task at hand: the log, or an error
GetAuditLog(w) ==
    /\ wpc[w] = "get"
    /\ \E ok \in BOOLEAN : wpc' = [wpc EXCEPT ![w] = IF ok THEN "send" ELSE "fail"]
    /\ UNCHANGED <<listVars, refreshVars, consVars, memVars, stopVars, ordVars, auditVars, logs, createErr, clock, tasks, created, wbatch, published, failures>>

\* producer.SendMessage keyed by the task id: delivered, or an error
SendMessage(w) ==
    /\ wpc[w] = "send"
    /\ \E ok \in BOOLEAN :
          IF ok
          THEN /\ published' = [published EXCEPT ![Head(wbatch[w])] = @ + 1]
               /\ wpc' = [wpc EXCEPT ![w] = "complete"]
          ELSE /\ published' = published
               /\ wpc' = [wpc EXCEPT ![w] = "fail"]
    /\ UNCHANGED <<listVars, refreshVars, consVars, memVars, stopVars, ordVars, auditVars, logs, createErr, clock, tasks, created, wbatch, failures>>

\* the loop goes on to the next reserved task, or the call returns
NextTask(w) ==
    /\ wbatch' = [wbatch EXCEPT ![w] = Tail(@)]
    /\ wpc' = [wpc EXCEPT ![w] = IF Tail(wbatch[w]) = <<>> THEN "idle" ELSE "get"]

\* MarkTaskFailed commits, or fails itself (the error is only logged)
MarkTaskFailed(w) ==
    /\ wpc[w] = "fail"
    /\ \E ok \in BOOLEAN :
          IF ok
          THEN /\ tasks' = [tasks EXCEPT ![Head(wbatch[w])] = MarkFailed(@, clock)]
               /\ failures' = [failures EXCEPT ![Head(wbatch[w])] = @ + 1]
          ELSE UNCHANGED <<tasks, failures>>
    /\ NextTask(w)
    /\ UNCHANGED <<listVars, refreshVars, consVars, memVars, stopVars, ordVars, auditVars, logs, createErr, clock, created, published>>

\* MarkTaskCompleted commits, or fails itself (the error is only logged)
MarkTaskCompleted(w) ==
    /\ wpc[w] = "complete"
    /\ \E ok \in BOOLEAN :
          IF ok
          THEN tasks' = [tasks EXCEPT ![Head(wbatch[w])] = MarkCompleted(@, clock)]
          ELSE tasks' = tasks
    /\ NextTask(w)
    /\ UNCHANGED <<listVars, refreshVars, consVars, memVars, stopVars, ordVars, auditVars, logs, createErr, clock, created, published, failures>>

\* two seconds pass
ClockTick ==
    /\ clock < MaxClock
    /\ clock' = clock + 1
    /\ UNCHANGED <<listVars, refreshVars, consVars, memVars, stopVars, ordVars, auditVars, logs, createErr, tasks, created, wpc, wbatch, published, failures>>

OutboxInit ==
    /\ clock = 0
    /\ logs = {}
    /\ createErr = ""
    /\ tasks = [i \in TaskIds |-> NoTask]
    /\ created = 0
    /\ wpc = [w \in OutboxWorkers |-> "idle"]
    /\ wbatch = [w \in OutboxWorkers |-> <<>>]
    /\ published = [i \in TaskIds |-> 0]
    /\ failures = [i \in TaskIds |-> 0]

OutboxNext ==
    \/ \E n \in 1..NumTasks : CreateLogsWithTasks(n)
    \/ \E w \in OutboxWorkers : Fetch(w)
    \/ \E w \in OutboxWorkers : GetAuditLog(w)
    \/ \E w \in OutboxWorkers : SendMessage(w)
    \/ \E w \in OutboxWorkers : MarkTaskFailed(w)
    \/ \E w \in OutboxWorkers : MarkTaskCompleted(w)
    \/ ClockTick

\* ------------------------------------------------------- cursor pagination
\* ids, customers, states and deadlines of the rows of the listed table
ListIds == {1, 2, 12}
ListCustomers == {1, 2}
ListStates == {"accepted", "delivered"}
ListDeadlines == {1, 2}
MaxListTime == 2
Limits == {1, 2}
\* search terms, as the digits typed ("" is the empty sequence)
Terms == {<<>>, <<1>>, <<2>>}

ListRow(i, c, st, d) ==
    [ZeroOrder EXCEPT !.id = i, !.customer = c, !.state = st, !.deadline = d]

\* CAST(n AS TEXT): the decimal digits of n
RECURSIVE Digits(_)
Digits(n) == IF n < 10 THEN <<n>> ELSE Digits(n \div 10) \o <<n % 10>>

\* text LIKE '%term%'
Like(text, term) ==
    \E k \in 1..(Len(text) - Len(term) + 1) : SubSeq(text, k, k + Len(term) - 1) = term

\* the WHERE clause without the cursor condition
Where(row, args, t) ==
    /\ args.searchTerm # <<>> =>
           Like(Digits(row.id), args.searchTerm) \/ Like(Digits(row.customer), args.searchTerm)
    /\ args.customerID > 0 => row.customer = args.customerID
    /\ args.filterPVZ => row.state = "accepted" /\ row.deadline > t

\* ORDER BY id ASC
RECURSIVE OrderByIdAsc(_)
OrderByIdAsc(ids) ==
    IF ids = {} THEN <<>>
    ELSE LET m == CHOOSE x \in ids : \A y \in ids : x <= y
         IN  <<m>> \o OrderByIdAsc(ids \ {m})

\* ORDER BY o.id DESC
RECURSIVE OrderByIdDesc(_)
OrderByIdDesc(ids) ==
    IF ids = {} THEN <<>>
    ELSE LET m == CHOOSE x \in ids : \A y \in ids : x >= y
         IN  <<m>> \o OrderByIdDesc(ids \ {m})

\* LIMIT n
Limit(seq, n) == SubSeq(seq, 1, Min(n, Len(seq)))

\* PostgresOrderRepository.ListWithCursor at time t
ListWithCursor(tbl, cursorID, args, t) ==
    LET ids == {i \in DOMAIN tbl :
                   /\ tbl[i] # ZeroOrder
                   /\ Where(tbl[i], args, t)
                   /\ cursorID > 0 => i < cursorID}
        sorted == Limit(OrderByIdDesc(ids), args.limit)
    IN  [k \in 1..Len(sorted) |-> tbl[sorted[k]]]

\* the client calls with its cursor, keeps the ids, and takes the last
\* returned id as the next cursor; an empty page ends the listing
ListPage ==
    /\ listPc = "call"
    /\ LET orders == ListWithCursor(table, cursor, listArgs, listNow)
       IN  /\ page' = orders
           /\ listed' = listed \o [k \in 1..Len(orders) |-> orders[k].id]
           /\ cursor' = IF orders = <<>> THEN cursor ELSE orders[Len(orders)].id
           /\ listPc' = IF orders = <<>> THEN "end" ELSE "call"
    /\ UNCHANGED <<ordVars, auditVars, stopVars, outboxVars, refreshVars, consVars, memVars, table, listNow, listArgs>>

\* time passes between two calls
ListTick ==
    /\ listPc = "call"
    /\ listNow < MaxListTime
    /\ listNow' = listNow + 1
    /\ UNCHANGED <<ordVars, auditVars, stopVars, outboxVars, refreshVars, consVars, memVars, table, listArgs, cursor, page, listed, listPc>>

\* nobody is listing
ListIdle ==
    /\ table = [i \in ListIds |-> ZeroOrder]
    /\ listNow = 0
    /\ listArgs = [limit |-> 1, customerID |-> 0, filterPVZ |-> FALSE, searchTerm |-> <<>>]
    /\ cursor = 0
    /\ page = <<>>
    /\ listed = <<>>
    /\ listPc = "end"

\* a client starts listing some table with some filters, from cursorID = 0
ListInit ==
    /\ table \in [ListIds -> {ZeroOrder}] \cup
                 {t \in [ListIds -> {ZeroOrder} \cup
                            {ListRow(i, c, st, d) : i \in ListIds, c \in ListCustomers,
                                                    st \in ListStates, d \in ListDeadlines}] :
                     \A i \in ListIds : t[i] # ZeroOrder => t[i].id = i}
    /\ listNow = 0
    /\ listArgs \in [limit : Limits, customerID : {0} \cup ListCustomers,
                      filterPVZ : BOOLEAN, searchTerm : Terms]
    /\ cursor = 0
    /\ page = <<>>
    /\ listed = <<>>
    /\ listPc = "call"

ListNext == ListPage \/ ListTick

\* ---------------------------------------------------------- history refresh
\* Requests for a refresh that may overlap, and how many of them are made.
Refreshers == {1, 2}
MaxRefreshCalls == 3

\* sync.Mutex.TryLock taken without regard to the holder
TryLockAlways(m, r) == [ok |-> TRUE, mu |-> r]

\* sync.Mutex.TryLock: the lock is taken only when it is free
TryLock(m, r) == IF m = 0 THEN [ok |-> TRUE, mu |-> r] ELSE [ok |-> FALSE, mu |-> m]

\* refreshHistoryCache, the entry: TryLock, and return nil at once when the
\* lock is held
RefreshHistoryCache(r) ==
    /\ refreshPc[r] = "idle"
    /\ refreshCalls < MaxRefreshCalls
    /\ refreshCalls' = refreshCalls + 1
    /\ refreshMu' = TryLock(refreshMu, r).mu
    /\ refreshPc' = [refreshPc EXCEPT ![r] =
                        IF TryLock(refreshMu, r).ok THEN "list" ELSE "skipped"]
    /\ UNCHANGED <<ordVars, auditVars, stopVars, outboxVars, listVars, consVars, memVars, refreshOrders, repoReads>>

\* getHistoryFromRepo: repo.List(ctx, ""); its error is returned, and the
\* deferred Unlock runs
GetHistoryFromRepo(r) ==
    /\ refreshPc[r] = "list"
    /\ repoReads' = repoReads + 1
    /\ \/ \E s \in List :
              /\ refreshOrders' = [refreshOrders EXCEPT ![r] =
                                      {store[s[i]] : i \in DOMAIN s}]
              /\ refreshPc' = [refreshPc EXCEPT ![r] = "store"]
              /\ refreshMu' = refreshMu
       \/ /\ refreshPc' = [refreshPc EXCEPT ![r] = "failed"]
          /\ refreshMu' = 0
          /\ refreshOrders' = refreshOrders
    /\ UNCHANGED <<ordVars, auditVars, stopVars, outboxVars, listVars, consVars, memVars, refreshCalls>>

\* the snapshot is replaced (in-process: c.history = entry; Redis: SET
\* historyKey EX historyTTL, which may fail), and the deferred Unlock runs
RefreshStore(r) ==
    /\ refreshPc[r] = "store"
    /\ \/ /\ history' = [orders |-> refreshOrders[r], ttl |-> now + HistoryTTL]
          /\ refreshPc' = [refreshPc EXCEPT ![r] = "refreshed"]
       \/ /\ cacheKind = "redis"
          /\ history' = history
          /\ refreshPc' = [refreshPc EXCEPT ![r] = "failed"]
    /\ refreshMu' = 0
    /\ refreshOrders' = [refreshOrders EXCEPT ![r] = {}]
    /\ UNCHANGED <<auditVars, stopVars, outboxVars, listVars, consVars, memVars, repoReads, refreshCalls,
                   now, store, cacheKind, cache, lruList, pc, op, arg, ord, res, emitted, todo>>

\* the request has returned; its goroutine may ask again
RefreshReturn(r) ==
    /\ refreshPc[r] \in {"skipped", "failed", "refreshed"}
    /\ refreshPc' = [refreshPc EXCEPT ![r] = "idle"]
    /\ UNCHANGED <<ordVars, auditVars, stopVars, outboxVars, listVars, consVars, memVars, refreshMu, refreshOrders,
                   repoReads, refreshCalls>>

RefreshInit ==
    /\ refreshMu = 0
    /\ refreshPc = [r \in Refreshers |-> "idle"]
    /\ refreshOrders = [r \in Refreshers |-> {}]
    /\ repoReads = 0
    /\ refreshCalls = 0

\* refresh requests while orders are accepted and time passes
RefreshNext ==
    \/ \E r \in Refreshers : RefreshHistoryCache(r)
    \/ \E r \in Refreshers : GetHistoryFromRepo(r)
    \/ \E r \in Refreshers : RefreshStore(r)
    \/ \E r \in Refreshers : RefreshReturn(r)
    \/ \E p \in Callers, id \in OrderIds, d \in Deadlines : AcceptOrder(p, id, 1, d, 4, 100000)
    \/ \E p \in Callers : AcceptCreate(p)
    \/ \E p \in Callers : AcceptInsert(p)
    \/ \E p \in Callers : AcceptCache(p)
    \/ \E p \in Callers : Return(p)
    \/ Tick

\* ------------------------------------------------------------ bus consumer
\* Consume calls that fail in a row, and channels made, in one run.
MaxErrors == 10
MaxChannels == 3
Channels == 1..MaxChannels

\* baseDelay and maxDelay, in milliseconds
BaseDelay == 100
MaxDelay == 30000

\* a delay that grows by baseDelay with every failure
BackoffLinear(n) == Min(MaxDelay, BaseDelay * n)

\* backoff := min(maxDelay, baseDelay * 2^(consecutiveErrors-1))
Backoff(n) == Min(MaxDelay, BaseDelay * 2 ^ (n - 1))

\* the top of the loop: a new handler around the current channel; ctx.Done()
\* ends the goroutine, otherwise Consume is called
ConsumerLoop ==
    /\ consPc = "loop"
    /\ IF consCtxDone
       THEN consPc' = "exit" /\ UNCHANGED <<handler, sessionUp>>
       ELSE /\ consPc' = "consume"
            /\ handler' = handlerReady
            /\ sessionUp' = FALSE
    /\ UNCHANGED <<ordVars, auditVars, stopVars, outboxVars, listVars, refreshVars, memVars,
                   handlerReady, closes, consecutiveErrors, backoff, sinceSetup, consCtxDone>>

\* ConsumerHandler.Setup, called by Consume once the session exists:
\* close(c.ready); closing a closed channel panics
Setup ==
    /\ consPc = "consume"
    /\ \neg sessionUp
    /\ closes' = [closes EXCEPT ![handler] = @ + 1]
    /\ IF closes[handler] > 0
       THEN consPc' = "panic" /\ UNCHANGED <<sessionUp, sinceSetup>>
       ELSE consPc' = consPc /\ sessionUp' = TRUE /\ sinceSetup' = 0
    /\ UNCHANGED <<ordVars, auditVars, stopVars, outboxVars, listVars, refreshVars, memVars,
                   handlerReady, handler, consecutiveErrors, backoff, consCtxDone>>

\* Consume returns an error, before or after the session was set up: the
\* counter grows and the delay is computed from it
ConsumeError ==
    /\ consPc = "consume"
    /\ consecutiveErrors < MaxErrors
    /\ consecutiveErrors' = consecutiveErrors + 1
    /\ backoff' = Backoff(consecutiveErrors')
    /\ sinceSetup' = sinceSetup + 1
    /\ consPc' = "backoff"
    /\ UNCHANGED <<ordVars, auditVars, stopVars, outboxVars, listVars, refreshVars, memVars,
                   handlerReady, handler, closes, sessionUp, consCtxDone>>

\* Consume returns nil, when its session has ended or the context is done:
\* the counter is reset
ConsumeReturn ==
    /\ consPc = "consume"
    /\ sessionUp \/ consCtxDone
    /\ consecutiveErrors' = 0
    /\ consPc' = IF consCtxDone THEN "exit" ELSE "await"
    /\ UNCHANGED <<ordVars, auditVars, stopVars, outboxVars, listVars, refreshVars, memVars,
                   handlerReady, handler, closes, sessionUp, backoff, sinceSetup, consCtxDone>>

\* the wait after a failure: time.After(backoff) fires and the loop
\* continues, or ctx.Done() ends the goroutine
BackoffElapsed ==
    /\ consPc = "backoff"
    /\ \/ consPc' = "loop"
       \/ consCtxDone /\ consPc' = "exit"
    /\ UNCHANGED <<ordVars, auditVars, stopVars, outboxVars, listVars, refreshVars, memVars,
                   handlerReady, handler, closes, sessionUp, consecutiveErrors, backoff,
                   sinceSetup, consCtxDone>>

\* the select after a Consume that returned nil: the closed channel is
\* replaced by a new one and the counter reset, or ctx.Done() ends the
\* goroutine
AwaitReady ==
    /\ consPc = "await"
    /\ \/ /\ closes[handlerReady] > 0
          /\ handlerReady < MaxChannels
          /\ handlerReady' = handlerReady + 1
          /\ consecutiveErrors' = 0
          /\ consPc' = "loop"
       \/ /\ consCtxDone
          /\ consPc' = "exit"
          /\ UNCHANGED <<handlerReady, consecutiveErrors>>
    /\ UNCHANGED <<ordVars, auditVars, stopVars, outboxVars, listVars, refreshVars, memVars,
                   handler, closes, sessionUp, backoff, sinceSetup, consCtxDone>>

\* Consumer.Stop: c.cancel()
ConsumerStop ==
    /\ \neg consCtxDone
    /\ consPc \notin {"exit", "panic"}
    /\ consCtxDone' = TRUE
    /\ UNCHANGED <<ordVars, auditVars, stopVars, outboxVars, listVars, refreshVars, memVars,
                   consPc, handlerReady, handler, closes, sessionUp, consecutiveErrors,
                   backoff, sinceSetup>>

ConsumerInit ==
    /\ consPc = "loop"
    /\ handlerReady = 1
    /\ handler = 1
    /\ closes = [ch \in Channels |-> 0]
    /\ sessionUp = FALSE
    /\ consecutiveErrors = 0
    /\ backoff = 0
    /\ sinceSetup = 0
    /\ consCtxDone = FALSE

ConsumerNext ==
    \/ ConsumerLoop
    \/ Setup
    \/ ConsumeError
    \/ ConsumeReturn
    \/ BackoffElapsed
    \/ AwaitReady
    \/ ConsumerStop

\* ---------------------------------------------------- in-process LRU cache
\* The cache holds up to MaxCacheSize of the ids 1..NumCacheIds; at most
\* MaxElems list elements are allocated, and time runs over 0..MemMaxTime.
NumCacheIds == 3
CacheIds == 1..NumCacheIds
MaxElems == 3
Elems == 1..MaxElems
MemMaxTime == 2
MemDeadlines == {1}
Readers == {1}
\* a nil pointer
Nil == -1
NoItem == [id |-> 0, order |-> [id |-> 0, deadline |-> 0], ttl |-> 0]

\* container/list as the cache uses it: the list is the record of its
\* elements' next and prev pointers, their list fields, and len
TheList == [next |-> memNext, prev |-> memPrev, owner |-> memOwner, len |-> memLen]

\* lruList.Init(): the root is linked to itself and len is zeroed; the
\* elements the list held keep their pointers and their list field
LruInit(l) ==
    [l EXCEPT !.next[0] = 0, !.prev[0] = 0, !.len = 0]

\* lruList.Remove(e): nothing unless e.list is this list
LruRemove(l, e) ==
    IF \neg l.owner[e] THEN l
    ELSE LET n1 == [l.next EXCEPT ![l.prev[e]] = l.next[e]]
             p1 == [l.prev EXCEPT ![l.next[e]] = l.prev[e]]
         IN  [next |-> [n1 EXCEPT ![e] = Nil],
              prev |-> [p1 EXCEPT ![e] = Nil],
              owner |-> [l.owner EXCEPT ![e] = FALSE],
              len |-> l.len - 1]

\* lruList.PushFront(v) with the new element e: insert(e, &l.root)
LruPushFront(l, e) ==
    LET first == l.next[0]
        n1 == [l.next EXCEPT ![e] = first, ![0] = e]
        p1 == [[l.prev EXCEPT ![e] = 0] EXCEPT ![first] = e]
    IN  [next |-> n1, prev |-> p1, owner |-> [l.owner EXCEPT ![e] = TRUE], len |-> l.len + 1]

\* lruList.MoveToFront(e): nothing unless e.list is this list and e is not
\* the first element; move(e, &l.root) unlinks e from the neighbours its
\* pointers name and links it after the root
LruMoveToFront(l, e) ==
    IF \neg l.owner[e] \/ l.next[0] = e THEN l
    ELSE LET n1 == [l.next EXCEPT ![l.prev[e]] = l.next[e]]
             p1 == [l.prev EXCEPT ![l.next[e]] = l.prev[e]]
             p2 == [p1 EXCEPT ![e] = 0]
             n2 == [n1 EXCEPT ![e] = n1[0]]
             n3 == [n2 EXCEPT ![0] = e]
             p3 == [p2 EXCEPT ![n3[e]] = e]
         IN  [next |-> n3, prev |-> p3, owner |-> l.owner, len |-> l.len]

\* lruList.Back()
LruBack(l) == IF l.len = 0 THEN Nil ELSE l.prev[0]

\* the elements the program can still reach: from the root, the map and the
\* GetOrder calls in progress, along next and prev
RECURSIVE Reach(_, _, _)
Reach(l, set, n) ==
    IF n = 0 THEN set
    ELSE Reach(l, set \cup (({l.next[e] : e \in set} \cup {l.prev[e] : e \in set}) \ {Nil}), n - 1)

\* the map, the items and the list after a step under ordersMu.Lock(); an
\* element that nothing refers to any more is garbage, and its slot is free
Store(m, item, l, held) ==
    LET live == Reach(l, {0} \cup {m[i] : i \in CacheIds} \cup held, MaxElems)
    IN  /\ memMap' = m
        /\ memItem' = [e \in Elems |-> IF e \in live THEN item[e] ELSE NoItem]
        /\ memNext' = [e \in 0..MaxElems |-> IF e \in live THEN l.next[e] ELSE Nil]
        /\ memPrev' = [e \in 0..MaxElems |-> IF e \in live THEN l.prev[e] ELSE Nil]
        /\ memOwner' = [e \in Elems |-> e \in live /\ l.owner[e]]
        /\ memLen' = l.len

\* the elements that GetOrder calls other than r hold
HeldBesides(r) == {memElem[q] : q \in Readers \ {r}}
HeldByAll == {memElem[q] : q \in Readers}

\* the ids that memUse holds, with id made the most recent
Used(id) == <<id>> \o Without(memUse, id)

\* InMemoryCache.SetOrder under ordersMu.Lock(): an order past its deadline
\* is refused; a cached id gets the new entry and is moved to the front;
\* otherwise the last element is evicted when the list is full and a new
\* element is pushed to the front
MemSetOrder(id, deadline) ==
    /\ \neg memPanic
    /\ memNow <= deadline
    /\ LET entry == [id |-> id, order |-> [id |-> id, deadline |-> deadline],
                     ttl |-> memNow + Min(deadline - memNow + AdditionalDuration, DefaultOrderTTL)]
       IN  IF memMap[id] # 0
           THEN /\ Store(memMap, [memItem EXCEPT ![memMap[id]] = entry],
                         LruMoveToFront(TheList, memMap[id]), HeldByAll)
                /\ memUse' = Used(id)
                /\ memEvicted' = 0
                /\ memPanic' = memPanic
           ELSE LET lastElem == LruBack(TheList)
                    full == memLen >= MaxCacheSize /\ lastElem # Nil
                IN  IF full /\ lastElem = 0
                    THEN /\ memPanic' = TRUE
                         /\ UNCHANGED <<memMap, memItem, memNext, memPrev, memOwner, memLen, memUse,
                                        memEvicted>>
                    ELSE /\ \E e \in Elems : memItem[e] = NoItem
                         /\ LET e == CHOOSE x \in Elems :
                                         /\ memItem[x] = NoItem
                                         /\ \A y \in Elems : memItem[y] = NoItem => x <= y
                                m1 == IF full THEN [memMap EXCEPT ![memItem[lastElem].id] = 0]
                                      ELSE memMap
                                l1 == IF full THEN LruRemove(TheList, lastElem) ELSE TheList
                                u1 == IF full THEN Without(memUse, memItem[lastElem].id)
                                      ELSE memUse
                            IN  /\ Store([m1 EXCEPT ![id] = e], [memItem EXCEPT ![e] = entry],
                                         LruPushFront(l1, e), HeldByAll)
                                /\ memUse' = <<id>> \o Without(u1, id)
                                /\ memEvicted' = IF full THEN memItem[lastElem].id ELSE 0
                                /\ memPanic' = memPanic
    /\ UNCHANGED <<ordVars, auditVars, stopVars, outboxVars, listVars, refreshVars, consVars,
                   memNow, memPc, memElem, memReap, memReapPc>>

\* InMemoryCache.GetOrder, the lookup under ordersMu.RLock(): a miss returns
\* ErrOrderNotFoundInCache, a hit keeps the element in elem
MemGetOrder(r, id) ==
    /\ \neg memPanic
    /\ memPc[r] = "idle"
    /\ IF memMap[id] = 0
       THEN UNCHANGED <<memPc, memElem>>
       ELSE /\ memPc' = [memPc EXCEPT ![r] = "entry"]
            /\ memElem' = [memElem EXCEPT ![r] = memMap[id]]
    /\ UNCHANGED <<ordVars, auditVars, stopVars, outboxVars, listVars, refreshVars, consVars, memEvicted,
                   memNow, memMap, memItem, memNext, memPrev, memOwner, memLen,
                   memReap, memReapPc, memPanic, memUse>>

\* GetOrder, after RUnlock: entry := item.entry and the check against
\* time.Now()
MemGetEntry(r) ==
    /\ \neg memPanic
    /\ memPc[r] = "entry"
    /\ LET entry == memItem[memElem[r]]
       IN  memPc' = [memPc EXCEPT ![r] =
                        IF memNow > entry.ttl \/ memNow > entry.order.deadline
                        THEN "expired" ELSE "move"]
    /\ UNCHANGED <<ordVars, auditVars, stopVars, outboxVars, listVars, refreshVars, consVars, memEvicted,
                   memNow, memMap, memItem, memNext, memPrev, memOwner, memLen,
                   memElem, memReap, memReapPc, memPanic, memUse>>

\* the GetOrder call of r returns
MemGetReturn(r) ==
    /\ memPc' = [memPc EXCEPT ![r] = "idle"]
    /\ memElem' = [memElem EXCEPT ![r] = 0]

\* GetOrder of an expired entry: c.DeleteOrder(ctx, orderID), whose error is
\* only logged, and ErrOrderExpired
MemGetExpired(r) ==
    /\ \neg memPanic
    /\ memPc[r] = "expired"
    /\ LET id == memItem[memElem[r]].id
       IN  IF memMap[id] = 0
           THEN /\ Store(memMap, memItem, TheList, HeldBesides(r))
                /\ memUse' = memUse
           ELSE /\ Store([memMap EXCEPT ![id] = 0], memItem,
                         LruRemove(TheList, memMap[id]), HeldBesides(r))
                /\ memUse' = Without(memUse, id)
    /\ MemGetReturn(r)
    /\ UNCHANGED <<ordVars, auditVars, stopVars, outboxVars, listVars, refreshVars, consVars, memEvicted,
                   memNow, memReap, memReapPc, memPanic>>

\* GetOrder of a live entry, under ordersMu.Lock(): when the map still has
\* the id, lruList.MoveToFront(elem) of the element read before; the order
\* is returned
MemGetMove(r) ==
    /\ \neg memPanic
    /\ memPc[r] = "move"
    /\ LET id == memItem[memElem[r]].id
       IN  IF memMap[id] # 0
           THEN /\ Store(memMap, memItem, LruMoveToFront(TheList, memElem[r]), HeldBesides(r))
                /\ memUse' = IF memMap[id] = memElem[r] THEN Used(id) ELSE memUse
           ELSE /\ Store(memMap, memItem, TheList, HeldBesides(r))
                /\ memUse' = memUse
    /\ MemGetReturn(r)
    /\ UNCHANGED <<ordVars, auditVars, stopVars, outboxVars, listVars, refreshVars, consVars, memEvicted,
                   memNow, memReap, memReapPc, memPanic>>

\* InMemoryCache.DeleteOrder under ordersMu.Lock(): ErrOrderNotFoundInCache
\* for an id the map does not have, else delete(ordersLruMap, orderID) and
\* lruList.Remove(elem)
MemDeleteOrder(id) ==
    /\ \neg memPanic
    /\ IF memMap[id] = 0
       THEN UNCHANGED <<memMap, memItem, memNext, memPrev, memOwner, memLen, memUse>>
       ELSE /\ Store([memMap EXCEPT ![id] = 0], memItem,
                     LruRemove(TheList, memMap[id]), HeldByAll)
            /\ memUse' = Without(memUse, id)
    /\ UNCHANGED <<ordVars, auditVars, stopVars, outboxVars, listVars, refreshVars, consVars, memEvicted,
                   memNow, memPc, memElem, memReap, memReapPc, memPanic>>

\* InMemoryCache.ClearOrderCache under ordersMu.Lock(): lruList.Init() and a
\* new map
MemClearOrderCache ==
    /\ \neg memPanic
    /\ Store([i \in CacheIds |-> 0], memItem, LruInit(TheList), HeldByAll)
    /\ memUse' = <<>>
    /\ UNCHANGED <<ordVars, auditVars, stopVars, outboxVars, listVars, refreshVars, consVars, memEvicted,
                   memNow, memPc, memElem, memReap, memReapPc, memPanic>>

\* cleanupExpiredOrders under ordersMu.RLock(): the ids whose ttl has passed
MemReapScan ==
    /\ \neg memPanic
    /\ memReapPc = "idle"
    /\ memReap' = {i \in CacheIds : memMap[i] # 0 /\ memNow > memItem[memMap[i]].ttl}
    /\ memReapPc' = IF memReap' = {} THEN "idle" ELSE "sweep"
    /\ UNCHANGED <<ordVars, auditVars, stopVars, outboxVars, listVars, refreshVars, consVars, memEvicted,
                   memNow, memMap, memItem, memNext, memPrev, memOwner, memLen,
                   memPc, memElem, memPanic, memUse>>

\* the removals of cleanupExpiredOrders, in the order of expiredIDs
RECURSIVE Sweep(_, _, _)
Sweep(m, l, ids) ==
    IF ids = <<>> THEN [map |-> m, list |-> l]
    ELSE IF m[Head(ids)] = 0 THEN Sweep(m, l, Tail(ids))
    ELSE Sweep([m EXCEPT ![Head(ids)] = 0], LruRemove(l, m[Head(ids)]), Tail(ids))

\* cleanupExpiredOrders under ordersMu.Lock(): every id of expiredIDs that
\* the map still has is deleted and its element removed
MemReapSweep ==
    /\ \neg memPanic
    /\ memReapPc = "sweep"
    /\ \E ids \in [1..Cardinality(memReap) -> memReap] :
          /\ {ids[i] : i \in DOMAIN ids} = memReap
          /\ LET r == Sweep(memMap, TheList, ids)
             IN  Store(r.map, memItem, r.list, HeldByAll)
    /\ memUse' = SelectSeq(memUse, LAMBDA x : x \notin memReap)
    /\ memReap' = {}
    /\ memReapPc' = "idle"
    /\ UNCHANGED <<ordVars, auditVars, stopVars, outboxVars, listVars, refreshVars, consVars, memEvicted,
                   memNow, memPc, memElem, memPanic>>

\* time passes
MemTick ==
    /\ memNow < MemMaxTime
    /\ memNow' = memNow + 1
    /\ UNCHANGED <<ordVars, auditVars, stopVars, outboxVars, listVars, refreshVars, consVars, memEvicted,
                   memMap, memItem, memNext, memPrev, memOwner, memLen,
                   memPc, memElem, memReap, memReapPc, memPanic, memUse>>

\* NewInMemoryCache: list.New() and an empty map
MemInit ==
    /\ memNow = 0
    /\ memMap = [i \in CacheIds |-> 0]
    /\ memItem = [e \in Elems |-> NoItem]
    /\ memNext = [e \in 0..MaxElems |-> IF e = 0 THEN 0 ELSE Nil]
    /\ memPrev = [e \in 0..MaxElems |-> IF e = 0 THEN 0 ELSE Nil]
    /\ memOwner = [e \in Elems |-> FALSE]
    /\ memLen = 0
    /\ memPc = [r \in Readers |-> "idle"]
    /\ memElem = [r \in Readers |-> 0]
    /\ memReap = {}
    /\ memReapPc = "idle"
    /\ memPanic = FALSE
    /\ memUse = <<>>
    /\ memEvicted = 0

MemNext ==
    \/ \E id \in CacheIds, d \in MemDeadlines : MemSetOrder(id, d)
    \/ \E r \in Readers, id \in CacheIds : MemGetOrder(r, id)
    \/ \E r \in Readers : MemGetEntry(r)
    \/ \E r \in Readers : MemGetExpired(r)
    \/ \E r \in Readers : MemGetMove(r)
    \/ \E id \in CacheIds : MemDeleteOrder(id)
    \/ MemClearOrderCache
    \/ MemReapScan
    \/ MemReapSweep
    \/ MemTick

\* no step of another call while a GetOrder call or a run of the reaper is
\* in progress
MemSeqNext ==
    /\ MemNext
    /\ \A r \in Readers : memPc[r] # "idle" => memPc'[r] # memPc[r]
    /\ memReapPc # "idle" => memReapPc' # memReapPc

\* ---------------------------------------------------------- specifications
Init ==
    /\ OrderInit /\ AuditInit /\ StopInit /\ OutboxInit /\ ListIdle /\ RefreshInit
    /\ ConsumerInit /\ MemInit

\* a client paging through a table that nothing modifies
ListStart ==
    /\ OrderInit /\ AuditInit /\ StopInit /\ OutboxInit /\ RefreshInit /\ ListInit
    /\ ConsumerInit /\ MemInit
ListSpec == ListStart /\ [][ListNext]_vars

\* the Order Service over the store and the cache
OrderSpec == Init /\ [][OrderNext]_vars

\* the Order Service when order files are imported as well
ImportSpec == Init /\ [][ImportNext]_vars

\* the audit logger while it runs
AuditSpec == Init /\ [][AuditNext]_vars

\* the audit logger while it runs, with a single caller of Log
OneCallerSpec == Init /\ [][OneCallerNext]_vars

\* every goroutine of the logger and every caller keeps being scheduled; a
\* sync.Mutex hands the lock to a waiter that keeps asking for it
AuditFairSpec ==
    /\ AuditSpec
    /\ \A p \in Callers : WF_vars(LogSend(p)) /\ SF_vars(LogLock(p)) /\ WF_vars(LogPush(p))
    /\ WF_vars(FanRecv) /\ WF_vars(FanSend)
    /\ \A k \in Pools, w \in Workers : WF_vars(WorkerRecv(k, w)) /\ WF_vars(WorkerTimer(k, w))
    /\ WF_vars(FlushTick) /\ WF_vars(FlushLock) /\ WF_vars(FlushTake)
    /\ WF_vars(FlushSend) /\ WF_vars(FlushRelock) /\ WF_vars(FlushPutBack)

\* only the callers of Log and the holders of the mutex are sure to run: the
\* fan-out, the pools and the drainer's ticker may stall for ever
LogFairSpec ==
    /\ AuditSpec
    /\ \A p \in Callers : WF_vars(LogSend(p)) /\ SF_vars(LogLock(p)) /\ WF_vars(LogPush(p))
    /\ WF_vars(FlushTake) /\ WF_vars(FlushPutBack)

\* Shutdown of the logger: every goroutine and Shutdown itself keep being
\* scheduled
ShutdownSpec ==
    /\ Init /\ [][ShutdownNext]_vars
    /\ WF_vars(ShutdownNext)
    /\ WF_vars(FanStop) /\ WF_vars(FanSendStop) /\ WF_vars(FlushOnShutdown)
    /\ WF_vars(FlushLock) /\ WF_vars(FlushTake) /\ WF_vars(FlushSendStop)
    /\ WF_vars(FlushRelock) /\ WF_vars(FlushPutBack)
    /\ \A k \in Pools, w \in Workers : WF_vars(WorkerStop(k, w))
    /\ WF_vars(CloseMain) /\ WF_vars(WaitFan) /\ WF_vars(WaitPools) /\ WF_vars(WaitOverflow)

\* overlapping requests for a refresh of the history snapshot
RefreshSpec == Init /\ [][RefreshNext]_vars

\* the bus consumer's goroutine, its Consume calls and Stop
ConsumerSpec == Init /\ [][ConsumerNext]_vars

\* the in-process order cache under concurrent calls and its reaper
MemSpec == Init /\ [][MemNext]_vars

\* the in-process order cache when its calls follow one another
MemSeqSpec == Init /\ [][MemSeqNext]_vars

\* the outbox dispatcher over the audit_tasks table
OutboxSpec == Init /\ [][OutboxNext]_vars

\* every worker's ticker keeps firing, every call it makes returns, and the
\* database clock keeps running
OutboxFairSpec ==
    /\ OutboxSpec
    /\ WF_vars(ClockTick)
    /\ \A w \in OutboxWorkers :
           /\ WF_vars(Fetch(w)) /\ WF_vars(GetAuditLog(w)) /\ WF_vars(SendMessage(w))
           /\ WF_vars(MarkTaskFailed(w)) /\ WF_vars(MarkTaskCompleted(w))

\* ------------------------------------------------- properties of OrderSpec
AcceptInFlight == {"acc_create", "acc_insert", "acc_cache"}

\* the step is a ClearDatabase deletion
ClearStep == \E p \in Callers : op[p] = "ClearDatabase" /\ todo'[p] # todo[p]

LegalChange(i) ==
    \/ store[i] = ZeroOrder /\ store'[i].state = "accepted"
    \/ store[i].state = "accepted" /\ store'[i].state = "delivered"
    \/ store[i].state = "delivered" /\ store'[i].state = "returned"
    \/ store[i].state \in {"accepted", "returned"} /\ store'[i] = ZeroOrder

\* C1: in every interleaving, each change of a stored order is a creation in
\* ACCEPTED, ACCEPTED -> DELIVERED, DELIVERED -> RETURNED, or the removal of
\* an ACCEPTED or RETURNED row; ClearDatabase excepted.
C1_OnlyLegalTransitions ==
    [][\A i \in OrderIds : store'[i] # store[i] => LegalChange(i) \/ ClearStep]_vars

\* a row was written over itself: a second delivery reached the store
C1_DeliveredTwice ==
    \E p, q \in Callers :
        /\ p # q
        /\ pc[p] = "done" /\ op[p] = "DeliverOrder" /\ res[p] = "ok"
        /\ pc[q] = "dlv_cache" /\ arg[q].id = arg[p].id
        /\ store[arg[q].id] = Row(ord[q])

\* Two AcceptOrder calls for one id are both past the service's validation
\* (which saw no row), or p has already succeeded while q is still in flight.
RacingAccepts(p, q) ==
    /\ p # q
    /\ op[p] = "AcceptOrder" /\ op[q] = "AcceptOrder"
    /\ arg[p].id = arg[q].id
    /\ pc[q] \in AcceptInFlight /\ ord[q].customer > 0
    /\ \/ pc[p] \in AcceptInFlight /\ ord[p].customer > 0
       \/ pc[p] = "done" /\ res[p] = "ok"

\* C2: of two concurrent AcceptOrder calls with the same id and valid
\* arguments, one succeeds and the other returns OrderExists.
C2_LoserGetsOrderExists ==
    [][\A p, q \in Callers :
          RacingAccepts(p, q) /\ pc'[q] = "done"
              => /\ res'[q] \in {"ok", "OrderExists"}
                 /\ \neg (res'[q] = "ok" /\ res'[p] = "ok")]_vars

\* the race has been run: one call succeeded, the other failed inside Create
C2_RaceLost ==
    \E p, q \in Callers :
        /\ p # q
        /\ pc[p] = "done" /\ op[p] = "AcceptOrder" /\ res[p] = "ok"
        /\ pc[q] = "done" /\ op[q] = "AcceptOrder" /\ arg[q].id = arg[p].id
        /\ res[q] \in {"OrderAlreadyExists", "InsertFailed"}
        /\ store[arg[p].id] # ZeroOrder

\* C3: for every stored order, delivered_at is non-null iff the state is
\* DELIVERED or RETURNED, and returned_at is non-null iff the state is RETURNED.
C3_TimestampsMatchState ==
    \A i \in OrderIds :
        store[i] # ZeroOrder =>
            /\ store[i].delivered # Null <=> store[i].state \in {"delivered", "returned"}
            /\ store[i].returned # Null <=> store[i].state = "returned"

\* an order has gone through delivery and return
C3_ReturnedStored ==
    \E i \in OrderIds :
        /\ store[i].state = "returned"
        /\ store[i].delivered # Null
        /\ store[i].returned # Null
        /\ \E p \in Callers : pc[p] = "done" /\ op[p] = "ProcessReturnOrder" /\ res[p] = "ok"

\* C4: once delivered_at (returned_at) of a stored order is non-null, its
\* value never changes, also under concurrent calls for the same order.
C4_TimestampsSetOnce ==
    [][\A i \in OrderIds :
          store[i] # ZeroOrder /\ store'[i] # ZeroOrder =>
              /\ store[i].delivered # Null => store'[i].delivered = store[i].delivered
              /\ store[i].returned # Null => store'[i].returned = store[i].returned]_vars

\* two deliveries of one order have both succeeded
C4_BothDelivered ==
    \E p, q \in Callers :
        /\ p # q
        /\ pc[p] = "done" /\ op[p] = "DeliverOrder" /\ res[p] = "ok"
        /\ pc[q] = "done" /\ op[q] = "DeliverOrder" /\ res[q] = "ok"
        /\ arg[p].id = arg[q].id

\* C5: ReturnOrderToCourier removes a row only if, when it is removed, the
\* stored order is RETURNED, or ACCEPTED with deadline_at <= now; never a
\* DELIVERED row, also when a DeliverOrder for the same id runs concurrently.
C5_CourierRemovesOnlyReclaimable ==
    [][\A p \in Callers :
          pc[p] = "rtc_delete" /\ store[arg[p].id] # ZeroOrder /\ store'[arg[p].id] = ZeroOrder
              => \/ store[arg[p].id].state = "returned"
                 \/ /\ store[arg[p].id].state = "accepted"
                    /\ store[arg[p].id].deadline <= now]_vars

\* a courier call is about to delete while the stored row is DELIVERED
C5_DeliveredAboutToGo ==
    \E p \in Callers :
        /\ pc[p] = "rtc_delete"
        /\ store[arg[p].id].state = "delivered"

CacheErrors == {"Expired", "NotFoundInCache", "HistoryNotFoundInCache", "NotCached"}

CacheBackedOps ==
    {"AcceptOrder", "DeliverOrder", "ProcessReturnOrder", "ReturnOrderToCourier",
     "GetOrderByID", "OrderHistory"}

\* C6: no Order Service operation returns a cache-signalling error (Expired,
\* NotFoundInCache, HistoryNotFoundInCache, NotCached) to its caller, with
\* either cache backend.
C6_NoCacheErrorReturned ==
    \A p \in Callers :
        pc[p] = "done" /\ op[p] \in CacheBackedOps => res[p] \notin CacheErrors

\* the courier's call for a returned order that is not cached has failed on
\* the cache, and the row is still there
C6_CourierFailedOnCache ==
    \E p \in Callers :
        /\ pc[p] = "done" /\ op[p] = "ReturnOrderToCourier"
        /\ res[p] = "NotFoundInCache"
        /\ store[arg[p].id].state = "returned"

\* ------------------------------------------- properties of the audit logger
Handed(e) == \A k \in Pools : handed[k][e] = 1

Terminal == {"COMPLETED", "NO_ATTEMPTS_LEFT"}

\* C9: once a task is COMPLETED or NO_ATTEMPTS_LEFT it is never reserved
\* again and no further message keyed by its id is published, for any number
\* of workers.
C9_TerminalTasksStayDone ==
    [][\A i \in TaskIds :
          tasks[i].status \in Terminal =>
              /\ tasks'[i].status # "PROCESSING"
              /\ \A w \in OutboxWorkers : i \notin Range(wbatch'[w])
              /\ published'[i] = published[i]]_vars

\* a task that failed after another one was completed has been reserved
\* again, with the completed one still in the table
C9_ReservedPastCompleted ==
    \E i, j \in TaskIds :
        /\ tasks[i].status = "COMPLETED"
        /\ published[i] = 1
        /\ tasks[j].status = "PROCESSING"
        /\ tasks[j].next # Null
        /\ tasks[j].next > tasks[i].completed + RetryDelay

\* C10: each MarkTaskFailed decrements attempts_left by one and sets FAILED
\* with next_attempt_after = now + 2 s when the new attempts_left is positive,
\* else NO_ATTEMPTS_LEFT with next_attempt_after null; a task created with 3
\* attempts is FAILED with 1 left after two failures and NO_ATTEMPTS_LEFT
\* with 0 left after three.
C10_MarkTaskFailed ==
    /\ [][\A i \in TaskIds :
             failures'[i] # failures[i] =>
                 /\ tasks'[i].attempts = tasks[i].attempts - 1
                 /\ IF tasks'[i].attempts > 0
                    THEN tasks'[i].status = "FAILED" /\ tasks'[i].next = clock + RetryDelay
                    ELSE tasks'[i].status = "NO_ATTEMPTS_LEFT" /\ tasks'[i].next = Null
                 /\ failures'[i] = 2 => tasks'[i].status = "FAILED" /\ tasks'[i].attempts = 1
                 /\ failures'[i] = 3 =>
                        tasks'[i].status = "NO_ATTEMPTS_LEFT" /\ tasks'[i].attempts = 0]_vars
    /\ [](\A i \in TaskIds :
             /\ failures[i] <= 3
             /\ failures[i] = 3 =>
                    tasks[i].status = "NO_ATTEMPTS_LEFT" /\ tasks[i].attempts = 0)

\* a task has failed three times
C10_ThreeFailures ==
    \E i \in TaskIds :
        /\ failures[i] = 3
        /\ tasks[i].status = "NO_ATTEMPTS_LEFT"
        /\ tasks[i].attempts = 0
        /\ tasks[i].next = Null

\* ------------------------------------------ properties of the audit tables
TasksOf(l) == {i \in TaskIds : tasks[i] # NoTask /\ tasks[i].log = l}

\* C11: in every committed state each audit log row has at least one audit
\* task row referencing it; the logs of a batch are stored only by a call that
\* returns nil, so a failure to insert the tasks stores no log of the batch.
C11_EveryLogHasTask ==
    /\ [](\A l \in logs : TasksOf(l) # {})
    /\ [][logs' # logs => createErr' = "" /\ \A l \in logs' : TasksOf(l)' # {}]_vars

\* after a batch was committed, a later batch failed while its tasks were
\* inserted, and the table holds the logs of the first batch only
C11_TasksFailedNothingStored ==
    /\ createErr = "createTasks"
    /\ logs # {}
    /\ Cardinality(logs) = created
    /\ created < NumTasks

\* ------------------------------------ properties of the service operations
\* C12: DeliverOrder with now equal to deadline_at, on an ACCEPTED order of
\* the given customer, returns success and leaves the order DELIVERED; with
\* now later than deadline_at it fails with StorageExpired and changes nothing.
C12_DeliverAtDeadline ==
    /\ [][\A p \in Callers :
             /\ pc[p] = "dlv_cache" /\ pc'[p] = "done"
             /\ arg[p].now = ord[p].deadline
             /\ store[arg[p].id] = Row(ord[p])
             => res'[p] = "ok" /\ store'[arg[p].id].state = "delivered"]_vars
    /\ [][\A p \in Callers :
             /\ pc[p] = "dlv_repo" /\ pc'[p] # "dlv_repo"
             /\ store[arg[p].id].state = "accepted"
             /\ store[arg[p].id].customer = arg[p].customer
             /\ arg[p].now > store[arg[p].id].deadline
             => res'[p] = "StorageExpired" /\ store' = store]_vars

\* a delivery at the deadline has written the row and then failed on the cache
C12_DeliveredButFailed ==
    \E p \in Callers :
        /\ pc[p] = "done" /\ op[p] = "DeliverOrder" /\ res[p] = "NotCached"
        /\ store[arg[p].id].state = "delivered"
        /\ store[arg[p].id].delivered = store[arg[p].id].deadline
        /\ emitted[p] = NoEvent

\* the step in which caller p's DeliverOrder checks the order it has read
\* (from the cache when the call starts, or else from the store)
DeliverChecks(p) ==
    \/ pc[p] = "idle" /\ op'[p] = "DeliverOrder" /\ pc'[p] # "dlv_repo"
    \/ pc[p] = "dlv_repo" /\ pc'[p] # "dlv_repo"

\* the error the contract asks for
DeliverContract(order, customer, t) ==
    CASE order.customer # customer -> "WrongCustomer"
      [] order.customer = customer /\ order.state # "accepted" -> "WrongState"
      [] order.customer = customer /\ order.state = "accepted" /\ t > order.deadline
             -> "StorageExpired"
      [] OTHER -> ""

AcceptChecks(p) == pc[p] = "idle" /\ op'[p] = "AcceptOrder"

\* the input of the AcceptOrder call that has just been validated, with the
\* time the call read
AcceptInput(p) == [arg'[p] EXCEPT !.now = now]

\* the error the contract asks for: the first precondition that fails
AcceptContract(in) ==
    IF \neg (in.id > 0) THEN "InvalidOrderID"
    ELSE IF \neg (in.now <= in.deadline) THEN "StorageDeadlinePassed"
    ELSE IF store[in.id] # ZeroOrder THEN "OrderExists"
    ELSE IF \neg (in.weight > 0) THEN "NegativeWeight"
    ELSE IF \neg (in.cost > 0) THEN "NegativeCost"
    ELSE ""

AcceptedOk(q) ==
    /\ pc[q] = "done" /\ op[q] = "AcceptOrder" /\ res[q] = "ok"
    /\ store[arg[q].id].state = "accepted"

\* C15: after AcceptOrder succeeds, GetOrderByID returns an ACCEPTED order
\* with the same id, customer, weight and deadline, and with cost equal to
\* the input cost when no package type is given, whether it is served from
\* the cache or from the store.
C15_GetReturnsAccepted ==
    [][\A p, q \in Callers :
          /\ AcceptedOk(q)
          /\ op'[p] = "GetOrderByID" /\ arg'[p].id = arg[q].id
          /\ pc[p] # "done" /\ pc'[p] = "done" /\ res'[p] = "ok"
          => /\ ord'[p].state = "accepted"
             /\ ord'[p].id = arg[q].id
             /\ ord'[p].customer = arg[q].customer
             /\ ord'[p].weight = arg[q].weight
             /\ ord'[p].deadline = arg[q].deadline
             /\ ord'[p].cost = arg[q].cost]_vars

\* GetOrderByID has returned the accepted order with another weight than the
\* one AcceptOrder was given
C15_OtherWeightReturned ==
    \E p, q \in Callers :
        /\ AcceptedOk(q)
        /\ pc[p] = "done" /\ op[p] = "GetOrderByID" /\ res[p] = "ok"
        /\ ord[p].id = arg[q].id /\ ord[p].state = "accepted"
        /\ ord[p].customer = arg[q].customer
        /\ ord[p].weight # arg[q].weight

\* ------------------------------------------ properties of the status events
\* the event a committed change of p's call has to hand to the logger
StatusEvent(p) ==
    CASE op[p] \in {"AcceptOrder", "AcceptOrdersFromFile"} -> <<arg[p].id, "none", "accepted">>
      [] op[p] = "DeliverOrder" -> <<arg[p].id, "accepted", "delivered">>
      [] op[p] = "ProcessReturnOrder" -> <<arg[p].id, "delivered", "returned">>
      [] OTHER -> <<arg[p].id, store[arg[p].id].state, "deleted">>

\* p's call returns in this step and has committed a change of the order
ReturnsAfterCommit(p) ==
    /\ pc'[p] = "done"
    /\ \/ pc[p] \in {"acc_cache", "dlv_cache", "ret_cache", "file_log"}
       \/ pc[p] = "rtc_delete" /\ store' # store

\* C34: a call that committed a change of an order to the store (accept,
\* deliver, return, courier delete, accept through a file) has handed
\* exactly one ORDER_STATUS event with the matching old and new status to
\* the logger when it returns.
C34_OneEventPerChange ==
    [][\A p \in Callers : ReturnsAfterCommit(p) => emitted'[p] = StatusEvent(p)]_vars

\* an imported order was accepted once and two events were handed over
C34_FileOrderLoggedTwice ==
    \E p \in Callers :
        /\ pc[p] = "done" /\ op[p] = "AcceptOrdersFromFile" /\ res[p] = "ok"
        /\ store[arg[p].id].state = "accepted"
        /\ emitted[p] = <<arg[p].id, "none", "accepted", arg[p].id, "none", "accepted">>

\* ---------------------------------------------- properties of the cache
\* the step in which a call's cache.SetOrder(ord[p]) runs and succeeds
SetSucceeds(p) ==
    /\ pc[p] \in {"acc_cache", "dlv_cache", "get_cache"}
    /\ pc'[p] # pc[p]
    /\ SetOrder(cache, lruList, ord[p]).err = ""

\* the TTL of the entry for id i elapses with this step, in which no call
\* takes a step: the in-process cache compares with After, Redis drops the
\* key when the TTL is over
TTLElapses(i) ==
    /\ cache[i] # NoEntry
    /\ pc' = pc
    /\ IF cacheKind = "inmem" THEN now' > cache[i].ttl ELSE now' >= cache[i].ttl

\* C16: on both backends, after setOrder(o) succeeds getOrder(o.id) returns o
\* as long as the entry's TTL has not elapsed and now <= o.deadline_at; once
\* the TTL has elapsed getOrder(o.id) returns Expired and the entry is no
\* longer in the cache.
C16_GetAfterSet ==
    /\ [][\A p \in Callers, i \in OrderIds :
             SetSucceeds(p) /\ ord[p].id = i =>
                 /\ (GetOrder(cache, lruList, i).err)' = ""
                 /\ (GetOrder(cache, lruList, i).order)' = ord[p]]_vars
    /\ [](\A i \in OrderIds :
             cache[i] # NoEntry /\ now < cache[i].ttl /\ now <= cache[i].order.deadline
                 => /\ GetOrder(cache, lruList, i).err = ""
                    /\ GetOrder(cache, lruList, i).order = cache[i].order)
    /\ [][\A i \in OrderIds :
             TTLElapses(i) =>
                 /\ (GetOrder(cache, lruList, i).err)' = "Expired"
                 /\ (GetOrder(cache, lruList, i).cache[i])' = NoEntry]_vars

\* the Redis key of an accepted order is gone with its TTL, before the
\* order's deadline has passed, and getOrder reports a miss
C16_RedisKeyGone ==
    \E q \in Callers :
        /\ AcceptedOk(q)
        /\ \A p \in Callers \ {q} : pc[p] = "idle"
        /\ cacheKind = "redis"
        /\ now <= store[arg[q].id].deadline
        /\ GetOrder(cache, lruList, arg[q].id).err = "NotFoundInCache"

\* C17: deleteOrder(id) is idempotent on both backends: it returns success
\* whether or not an entry for id is present, and a second consecutive
\* deleteOrder(id) returns the same result as the first and leaves the cache
\* as the first call left it.
C17_DeleteIdempotent ==
    \A i \in OrderIds :
        LET first == DeleteOrder(cache, lruList, i)
            second == DeleteOrder(first.cache, first.lru, i)
        IN  /\ first.err = ""
            /\ second.err = first.err
            /\ second.cache = first.cache
            /\ second.lru = first.lru

\* a customer's return has written the RETURNED row and then failed because
\* the in-process cache had no entry to delete
C17_DeleteOfAbsentFailed ==
    \E p \in Callers :
        /\ cacheKind = "inmem"
        /\ pc[p] = "done" /\ op[p] = "ProcessReturnOrder"
        /\ res[p] = "NotFoundInCache"
        /\ store[arg[p].id].state = "returned"
        /\ cache[arg[p].id] = NoEntry

\* C18: clearOrderCache() removes every order entry and changes nothing else:
\* when ClearDatabase's call of it returns, getOrder fails with
\* NotFoundInCache for every id, and getOrderHistory returns exactly what it
\* returned immediately before the call (the snapshot and its expiry are
\* untouched), on both backends.
C18_ClearOrderCacheFrame ==
    [][\A p \in Callers :
          pc[p] = "clr_delete" /\ todo[p] = <<>> /\ pc'[p] = "done" =>
              /\ \A i \in OrderIds :
                     (GetOrder(cache, lruList, i).err)' = "NotFoundInCache"
              /\ history' = history
              /\ GetOrderHistory' = GetOrderHistory]_vars

\* ClearDatabase has returned success while an accepted order's call is still
\* open: the entry that call cached is gone and the snapshot is still served
C18_ClearedWithLiveHistory ==
    \E p, q \in Callers :
        /\ pc[p] = "done" /\ op[p] = "ClearDatabase" /\ res[p] = "ok"
        /\ pc[q] = "done" /\ op[q] = "AcceptOrder" /\ res[q] = "ok"
        /\ now <= arg[q].deadline
        /\ cache[arg[q].id] = NoEntry
        /\ GetOrderHistory.err = ""

\* q starts ReturnOrderToCourier(id) with every other call finished or not begun
CourierBegins(q, id) ==
    /\ pc[q] = "idle" /\ op'[q] = "ReturnOrderToCourier" /\ arg'[q].id = id
    /\ \A p \in Callers \ {q} : pc[p] \in {"idle", "done"}

\* an earlier ReturnOrderToCourier(id) has returned success and the row has
\* not been created again
CourierSucceeded(id) ==
    /\ store[id] = ZeroOrder
    /\ \E p \in Callers :
           /\ pc[p] = "done" /\ op[p] = "ReturnOrderToCourier"
           /\ res[p] = "ok" /\ arg[p].id = id

\* nothing was ever stored or cached for id
NeverExisted(id) == store[id] = ZeroOrder /\ cache[id] = NoEntry

\* C19: after ReturnOrderToCourier(id) has succeeded, a second
\* ReturnOrderToCourier(id) fails with the order-not-found error and changes
\* neither the store nor the cache; the same holds for an id that never
\* existed. The second call misses the cache, leaves it as it was, and its
\* repository lookup ends it with order-not-found.
C19_SecondCourierReturnNotFound ==
    [][\A q \in Callers, id \in OrderIds :
          /\ CourierBegins(q, id) /\ (CourierSucceeded(id) \/ NeverExisted(id)) =>
                /\ pc'[q] = "rtc_repo"
                /\ store' = store /\ cache' = cache /\ lruList' = lruList
          /\ pc[q] = "rtc_repo" /\ arg[q].id = id /\ store[id] = ZeroOrder
             /\ pc'[q] # pc[q] =>
                /\ pc'[q] = "done" /\ res'[q] = "OrderNotFound"
                /\ store' = store /\ cache' = cache /\ lruList' = lruList]_vars

\* the second call has found a cache entry for the id whose row the first
\* call deleted: an AcceptOrder cached its order after the first call's
\* cache.DeleteOrder
C19_SecondCallHitsStaleEntry ==
    \E p, q \in Callers, id \in OrderIds :
        /\ pc[p] = "done" /\ op[p] = "ReturnOrderToCourier"
        /\ res[p] = "ok" /\ arg[p].id = id
        /\ pc[q] = "rtc_cache" /\ op[q] = "ReturnOrderToCourier" /\ arg[q].id = id
        /\ store[id] = ZeroOrder
        /\ cache[id] # NoEntry

\* the call of caller q is in progress
Running(q) == pc[q] \notin {"idle", "done"}

\* no AcceptOrder runs while a ClearDatabase runs
NoAcceptDuringClear ==
    \A p, q \in Callers :
        ~((op[p] = "ClearDatabase" /\ Running(p)) /\ (op[q] = "AcceptOrder" /\ Running(q)))

ClearAloneNext == OrderNext /\ NoAcceptDuringClear'

\* the order service when AcceptOrder and ClearDatabase never overlap
ClearAloneSpec == Init /\ [][ClearAloneNext]_vars

\* a ClearDatabase call has returned success
Cleared == \E p \in Callers : pc[p] = "done" /\ op[p] = "ClearDatabase" /\ res[p] = "ok"

\* what GetOrderByID(id) returns when it runs alone from the current state
GetOrderByIDResult(id) ==
    IF GetOrder(cache, lruList, id).err = "" THEN "ok"
    ELSE IF GetByID(id) = ZeroOrder THEN "OrderNotFound" ELSE "ok"

Empty ==
    /\ \A i \in OrderIds : store[i] = ZeroOrder /\ cache[i] = NoEntry
    /\ \A i \in OrderIds : GetOrderByIDResult(i) = "OrderNotFound"

\* C20: after ClearDatabase returns success, with no AcceptOrder running
\* concurrently, the store contains no order and the order cache contains no
\* order entry, so GetOrderByID fails with order-not-found for every id;
\* ClearDatabase on an already empty store also returns success. The store
\* and the cache are empty when the call returns (it returns success when
\* its list is exhausted), and stay empty while no AcceptOrder call acts.
C20_ClearedMeansEmpty ==
    [][/\ \A p \in Callers :
             pc[p] = "clr_delete" /\ todo[p] = <<>> /\ pc'[p] # pc[p] =>
                 res'[p] = "ok" /\ Empty'
       /\ (/\ Cleared /\ Empty
           /\ \A q \in Callers : op[q] # "AcceptOrder" /\ op'[q] # "AcceptOrder") =>
                 Empty']_vars

\* ClearDatabase has returned success, no AcceptOrder overlapped it, and the
\* cache holds the DELIVERED copy of a deleted row: a DeliverOrder that had
\* committed its update before the rows were deleted cached it afterwards
C20_CachedAfterClear ==
    \E p, q \in Callers, i \in OrderIds :
        /\ pc[p] = "done" /\ op[p] = "ClearDatabase" /\ res[p] = "ok"
        /\ pc[q] = "done" /\ op[q] = "DeliverOrder" /\ res[q] = "ok" /\ arg[q].id = i
        /\ store[i] = ZeroOrder
        /\ cache[i] # NoEntry /\ cache[i].order.state = "delivered"
        /\ GetOrderByIDResult(i) = "ok"

\* the ids of the rows that satisfy the filters at time t
MatchingIds(t) == {i \in ListIds : table[i] # ZeroOrder /\ Where(table[i], listArgs, t)}

C22_ReturnWindow ==
    /\ [][\A p \in Callers :
             /\ pc[p] = "ret_cache" /\ pc'[p] = "done"
             /\ store[arg[p].id] = Row(ord[p])
             /\ arg[p].now - ord[p].delivered <= ReturnedAt
             => res'[p] = "ok"]_vars
    /\ [][\A p \in Callers :
             LET o == store[arg[p].id]
             IN  /\ pc[p] = "ret_repo" /\ pc'[p] # "ret_repo"
                 /\ o # ZeroOrder /\ o.customer = arg[p].customer
                 => /\ o.state # "delivered" =>
                          res'[p] = "NotDelivered" /\ store' = store
                    /\ o.state = "delivered" /\ arg[p].now - o.delivered > ReturnedAt =>
                          res'[p] = "ReturnExpired" /\ store' = store
                    /\ o.state = "delivered" /\ arg[p].now - o.delivered <= ReturnedAt =>
                          pc'[p] = "ret_update"]_vars

\* a return made exactly 48 hours after the delivery, with no other call in
\* progress, has written the RETURNED row and has failed on the in-process
\* cache, which had dropped the entry of the order past its deadline
C22_ReturnAt48hFailed ==
    \E p \in Callers :
        /\ cacheKind = "inmem"
        /\ \A q \in Callers \ {p} : pc[q] = "idle"
        /\ pc[p] = "done" /\ op[p] = "ProcessReturnOrder"
        /\ res[p] = "NotFoundInCache"
        /\ store[arg[p].id].state = "returned"
        /\ store[arg[p].id].returned - store[arg[p].id].delivered = ReturnedAt
        /\ store[arg[p].id].returned > store[arg[p].id].deadline

\* where a call is when its next step is its store write (repo.Create,
\* repo.Update, repo.Delete), and when it is its cache write (cache.SetOrder,
\* cache.DeleteOrder)
StoreWritePcs == {"acc_insert", "dlv_update", "ret_update", "rtc_delete"}
CacheWritePcs == {"acc_cache", "dlv_cache", "ret_cache", "rtc_cache"}

\* C23: in every Order Service operation that changes an order (AcceptOrder,
\* DeliverOrder, ProcessReturnOrder, ReturnOrderToCourier) the cache is
\* modified only after the store write has committed and the audit event is
\* emitted only after the cache update; if the store write fails, the cache
\* is left exactly as it was before the call. So no call goes from its cache
\* write on to its store write, the store write changes no cache entry, and
\* the event is handed over by a step that comes after the cache write.
C23_StoreThenCacheThenAudit ==
    [][\A p \in Callers :
          /\ pc[p] \in CacheWritePcs /\ pc'[p] # pc[p] => pc'[p] \notin StoreWritePcs
          /\ pc[p] \in StoreWritePcs /\ pc'[p] # pc[p] =>
                 /\ cache' = cache /\ lruList' = lruList
                 /\ pc'[p] \in CacheWritePcs \cup {"done"}
          /\ emitted'[p] # emitted[p] /\ emitted'[p] # NoEvent =>
                 /\ pc[p] \in CacheWritePcs \cup {"rtc_delete"}
                 /\ res'[p] = "ok"]_vars

\* a ReturnOrderToCourier call has deleted the entry from the in-process cache
\* and has not yet deleted the row, which is still stored as the call read it
C23_CacheDeletedBeforeRow ==
    \E p \in Callers :
        /\ cacheKind = "inmem"
        /\ \A q \in Callers \ {p} : pc[q] = "idle"
        /\ pc[p] = "rtc_delete" /\ op[p] = "ReturnOrderToCourier"
        /\ cache[arg[p].id] = NoEntry
        /\ store[arg[p].id] # ZeroOrder
        /\ store[arg[p].id] = Row(ord[p])

\* the tasks worker w has reserved and not yet marked
Held(w) == Range(wbatch[w])

\* C24: no dispatch task is held by two workers at once: between a
\* fetchTasksIDs call that returns task t and the next markTaskCompleted or
\* markTaskFailed for t, no other fetchTasksIDs call by any worker returns t,
\* so concurrent fetches return pairwise disjoint task sets and each
\* reservation leads to at most one publish attempt.
C24_NoTaskHeldTwice ==
    /\ [](\A w, v \in OutboxWorkers : w # v => Held(w) \cap Held(v) = {})
    /\ [](\A w \in OutboxWorkers :
             \A j, k \in DOMAIN wbatch[w] : j # k => wbatch[w][j] # wbatch[w][k])
    /\ [][\A w \in OutboxWorkers :
             /\ wpc[w] = "idle" /\ wpc'[w] # "idle" =>
                    \A v \in OutboxWorkers \ {w} : Held(w)' \cap Held(v) = {}
             /\ wpc'[w] = "send" /\ wpc[w] # "send" =>
                    wpc[w] = "get" /\ wbatch'[w] = wbatch[w]
             /\ wpc[w] = "send" /\ wpc'[w] # "send" =>
                    wpc'[w] \in {"complete", "fail"} /\ wbatch'[w] = wbatch[w]
             /\ wpc[w] \in {"complete", "fail"} /\ wpc'[w] # wpc[w] =>
                    Held(w)' = Held(w) \ {Head(wbatch[w])}]_vars

\* both workers hold a reserved task at the same time, and one of them has
\* published its task
C24_BothWorkersHold ==
    /\ \A w \in OutboxWorkers : Held(w) # {}
    /\ \E w \in OutboxWorkers : wpc[w] = "complete" /\ published[Head(wbatch[w])] = 1

\* task t is reserved (PROCESSING) and no worker is going to mark it
Abandoned(t) ==
    /\ tasks[t].status = "PROCESSING"
    /\ \A w \in OutboxWorkers : t \notin Held(w)

\* C25: a task that a worker has reserved but never marked (because the worker
\* crashed, its 5-second batch scope expired, or the mark call itself failed)
\* does not stay reserved forever: it eventually becomes reservable by
\* fetchTasksIDs again.
C25_AbandonedTaskReservable ==
    \A t \in TaskIds : Abandoned(t) ~> Selectable(tasks[t], clock)

\* a task is PROCESSING although every worker is idle: the mark of the worker
\* that reserved it did not commit
C25_TaskLeftProcessing ==
    \E t \in TaskIds :
        /\ Abandoned(t)
        /\ \A w \in OutboxWorkers : wpc[w] = "idle"
        /\ clock = MaxClock

\* C26: Shutdown of the audit logger always returns (no deadlock), and when
\* it returns every event that had entered the inbound mailbox has been
\* handed to both pools' processors (workers flushing their partial batches)
\* and every event still in the overflow list has been printed to stdout: no
\* event accepted by Log before Shutdown is dropped.
C26_ShutdownLosesNothing ==
    /\ [](shutPc = "returned" =>
             \A e \in 1..passed : Handed(e) \/ e \in printed)
    /\ (shutPc # "run") ~> (shutPc = "returned")

\* Shutdown has returned and an event that Log had put into the mailbox has
\* reached no processor and was not printed
C26_EventDroppedAtShutdown ==
    /\ shutPc = "returned"
    /\ \E e \in 1..passed :
           /\ e \notin spilled /\ e \notin printed
           /\ \A k \in Pools : handed[k][e] = 0

\* a ProcessReturnOrder of id has written the row and has not yet called
\* cache.DeleteOrder
Returning(id) ==
    \E p \in Callers : pc[p] = "ret_cache" /\ arg[p].id = id

\* C27: An order whose stored state is RETURNED is never present in the order
\* cache: once ProcessReturnOrder(id) has succeeded the cache holds no entry
\* for id, and none reappears later, also when a GetOrderByID for the same id
\* runs concurrently with the return.
C27_ReturnedNeverCached ==
    \A id \in OrderIds :
        (store[id].state = "returned" /\ \neg Returning(id)) => cache[id] = NoEntry

\* ProcessReturnOrder(id) has just succeeded, and the GetOrderByID(id) that
\* ran beside it has put the row it had read back into the cache
C27_ReturnedOrderCached ==
    \E id \in OrderIds, p, q \in Callers :
        /\ store[id].state = "returned"
        /\ op[q] = "ProcessReturnOrder" /\ pc[q] = "done" /\ res[q] = "ok" /\ arg[q].id = id
        /\ op[p] = "GetOrderByID" /\ pc[p] = "done" /\ res[p] = "ok" /\ arg[p].id = id
        /\ cache[id] # NoEntry /\ cache[id].order = ord[p]

\* no Order Service call is in progress
Quiescent == \A p \in Callers : pc[p] \in {"idle", "done"}

\* the columns the cache entry and the row are compared on
SameOrder(a, b) ==
    /\ a.id = b.id /\ a.customer = b.customer /\ a.state = b.state
    /\ a.deadline = b.deadline /\ a.updated = b.updated
    /\ a.delivered = b.delivered /\ a.returned = b.returned
    /\ a.cost = b.cost

\* C28: Whenever no Order Service call is in progress, every entry in the
\* order cache equals the store's current row for that id (same state,
\* timestamps and cost) and no entry exists for an id that has no row in the
\* store, whatever sequence of successful or failed service calls came before.
C28_CacheCoherentAtRest ==
    Quiescent =>
        \A id \in OrderIds :
            cache[id] # NoEntry =>
                store[id] # ZeroOrder /\ SameOrder(cache[id].order, store[id])

\* DeliverOrder has failed on cache.SetOrder after its Update: nothing is in
\* progress, the row is DELIVERED and the cache still holds the ACCEPTED order
C28_StaleEntryAfterFailedDeliver ==
    /\ Quiescent
    /\ \E id \in OrderIds, p \in Callers :
           /\ op[p] = "DeliverOrder" /\ pc[p] = "done" /\ res[p] = "NotCached"
           /\ arg[p].id = id
           /\ \A q \in Callers \ {p} : pc[q] = "idle"
           /\ store[id].state = "delivered"
           /\ cache[id] # NoEntry /\ cache[id].order.state = "accepted"

\* the positions of a call right after its store write has succeeded
AfterStoreWrite == {"acc_cache", "dlv_cache", "ret_cache"}

\* C29: If AcceptOrder, DeliverOrder, ProcessReturnOrder or
\* ReturnOrderToCourier returns an error, the store holds for that order
\* exactly what it held before the call: a call that has changed the order's
\* row does not report failure.
C29_FailureLeavesRow ==
    [][\A p \in Callers :
          /\ (pc[p] \in AfterStoreWrite /\ pc'[p] = "done") => res'[p] = "ok"
          /\ (pc[p] \in {"acc_insert", "dlv_update", "ret_update", "rtc_delete"}
                 /\ pc'[p] = "done" /\ res'[p] # "ok") => store' = store]_vars

\* AcceptOrder has returned an error although the row it created is in the
\* store, where there was none before the call
C29_AcceptFailedRowCreated ==
    \E p \in Callers :
        /\ op[p] = "AcceptOrder" /\ pc[p] = "done" /\ res[p] = "NotCached"
        /\ \A q \in Callers \ {p} : pc[q] = "idle"
        /\ store[arg[p].id] # ZeroOrder
        /\ store[arg[p].id].state = "accepted"
        /\ store[arg[p].id].updated = 0

\* the requests that hold refreshMu and are reading or storing
Refreshing == {r \in Refreshers : refreshPc[r] \in {"list", "store"}}

\* C30: At most one history refresh executes at a time per cache instance: a
\* refresh request that arrives while another refresh is running returns
\* immediately without reading the repository and without changing the
\* snapshot, so overlapping refresh requests cause exactly one repository
\* read.
C30_OneRefreshAtATime ==
    /\ [](Cardinality(Refreshing) <= 1)
    /\ [][\A r \in Refreshers :
            /\ (refreshPc[r] = "idle" /\ refreshPc'[r] # "idle" /\ Refreshing # {}) =>
                   /\ refreshPc'[r] = "skipped"
                   /\ history' = history /\ repoReads' = repoReads
                   /\ refreshMu' = refreshMu
            /\ (refreshPc[r] = "skipped") =>
                   (refreshPc'[r] \in {"skipped", "idle"}
                      /\ (refreshPc'[r] = "idle" => repoReads' = repoReads /\ history' = history))
            /\ (refreshPc[r] = "list" /\ refreshPc'[r] # "list") => repoReads' = repoReads + 1
            /\ repoReads' # repoReads =>
                   \E q \in Refreshers : refreshMu = q /\ refreshPc[q] = "list"
                                              /\ refreshPc'[q] # "list"]_vars

\* a request has been turned away while another one holds refreshMu and has
\* read the repository, once
C30_RequestSkipped ==
    \E r, q \in Refreshers :
        /\ refreshPc[r] = "skipped"
        /\ refreshPc[q] = "store" /\ refreshMu = q
        /\ refreshCalls = 2 /\ repoReads = 1

\* C31: In every reachable store state, for every dispatch task: status =
\* NO_ATTEMPTS_LEFT if and only if attempts_left = 0, and status = COMPLETED
\* implies completed_at is non-null.
C31_TaskStatusInvariant ==
    \A t \in TaskIds :
        tasks[t] # NoTask =>
            /\ (tasks[t].status = "NO_ATTEMPTS_LEFT") <=> (tasks[t].attempts = 0)
            /\ tasks[t].status = "COMPLETED" => tasks[t].completed # Null

\* one task has used up its attempts and another one is completed
C31_ExhaustedAndCompleted ==
    \E t, u \in TaskIds :
        /\ tasks[t].status = "NO_ATTEMPTS_LEFT" /\ tasks[t].attempts = 0
        /\ tasks[u].status = "COMPLETED" /\ tasks[u].completed # Null

\* C32: No event is ever sent on the inbound mailbox after Shutdown has
\* closed it: a Log call or an overflow-drainer pass that runs concurrently
\* with, or after, Shutdown never performs a send on the closed mailbox.
C32_NoSendOnClosedMailbox ==
    [][flushPc = "send" /\ chClosed => flushPc' # "panic"]_vars

\* the drainer had taken an event off the overflow list when Shutdown closed
\* the mailbox, and its select took the send case
C32_DrainerSentOnClosed ==
    /\ Panicked /\ chClosed
    /\ flushLog \in spilled
    /\ shutPc = "waitFan"

\* C33: Each instance of the consumer's "ready" handshake channel is closed
\* at most once: when a subscription call returns an error after its session
\* had already been set up, the setup of the next session does not close a
\* channel that is already closed.
C33_ReadyClosedOnce == \A ch \in Channels : closes[ch] <= 1

\* a Consume call failed after its session was set up, and the Setup of the
\* next call has closed the same channel again
C33_ReadyClosedTwice ==
    /\ consPc = "panic"
    /\ closes[handler] = 2
    /\ handler = handlerReady
    /\ consecutiveErrors >= 1

\* C37: After the n-th consecutive failed subscription call (n >= 1) the bus
\* consumer waits min(30 s, 100 ms * 2^(n-1)) before retrying, and the count
\* restarts, so that the next failure waits 100 ms, as soon as a session has
\* been set up successfully.
C37_BackoffFollowsFailures ==
    [][(consPc = "consume" /\ consPc' = "backoff") =>
          backoff' = Min(30000, 100 * 2 ^ (sinceSetup' - 1))]_vars

\* a Consume call has failed after its session was set up, as the first
\* failure since that setup, and the wait is longer than 100 ms
C37_LongWaitAfterSetup ==
    /\ consPc = "backoff"
    /\ sessionUp /\ sinceSetup = 1
    /\ consecutiveErrors > 1
    /\ backoff > 100

\* C39: every entry held in the order cache describes an order in state
\* ACCEPTED: a successful DeliverOrder leaves no entry for the order, and no
\* service path writes an entry for an order that is not ACCEPTED.
C39_OnlyAcceptedCached ==
    \A id \in OrderIds : cache[id] # NoEntry => cache[id].order.state = "accepted"

\* DeliverOrder has succeeded and the entry of the order is the delivered row
C39_DeliveredOrderCached ==
    \E p \in Callers :
        /\ op[p] = "DeliverOrder" /\ pc[p] = "done" /\ res[p] = "ok"
        /\ store[arg[p].id].state = "delivered"
        /\ cache[arg[p].id] # NoEntry
        /\ cache[arg[p].id].order = store[arg[p].id]

\* ------------------------------------- properties of the order of the events
IsPrefix(a, b) == Len(a) <= Len(b) /\ \A i \in DOMAIN a : a[i] = b[i]

C35_CallerOrderKept ==
    \A k \in Pools : \A i, j \in DOMAIN inboxed[k] : i < j => inboxed[k][i] < inboxed[k][j]

\* the caller's earlier event waited on the overflow list and entered both
\* inboxes after the event of its next call
C35_SpilledEventOvertaken ==
    \E e1, e2 \in Events :
        /\ e1 < e2 /\ e1 \in spilled /\ e2 \notin spilled
        /\ \A p \in Callers : p # 1 => logPc[p] = "idle"
        /\ \A k \in Pools : \E i, j \in DOMAIN inboxed[k] :
               i < j /\ inboxed[k][i] = e2 /\ inboxed[k][j] = e1

\* ------------------------------------ properties of the in-process cache
\* the ids of the elements of lruList from the front, as a traversal with
\* Front() and Next() meets them
RECURSIVE Walk(_, _)
Walk(e, n) ==
    IF e = 0 \/ e = Nil \/ n = 0 THEN <<>>
    ELSE <<memItem[e].id>> \o Walk(memNext[e], n - 1)

LruIds == Walk(memNext[0], MaxElems + 1)
MapIds == {i \in CacheIds : memMap[i] # 0}

\* C40: whenever the orders lock is free, the id-to-node map and the LRU
\* list contain exactly the same set of ids, each once, and the number of
\* entries never exceeds maxCacheSize, under any interleaving of setOrder,
\* getOrder, deleteOrder, clearOrderCache and the periodic reaper.
C40_MapAndListAgree ==
    /\ {LruIds[i] : i \in DOMAIN LruIds} = MapIds
    /\ \A i, j \in DOMAIN LruIds : i # j => LruIds[i] # LruIds[j]
    /\ Cardinality(MapIds) <= MaxCacheSize

\* every call has returned and the reaper is idle; the map holds two ids,
\* the list holds one element, which the map does not refer to
C40_ListLostAnEntry ==
    /\ \A r \in Readers : memPc[r] = "idle"
    /\ memReapPc = "idle" /\ \neg memPanic
    /\ Cardinality(MapIds) = 2 /\ memLen = 2
    /\ Len(LruIds) = 1
    /\ \A i \in CacheIds : memMap[i] # memNext[0]

\* what SetOrder(id, deadline) has to leave behind
SetOrderKeeps(id) ==
    \A i \in MapIds \ {id} :
        i \in MapIds' => memMap'[i] = memMap[i] /\ memItem'[memMap[i]] = memItem[memMap[i]]

\* C38: setOrder of an id not yet cached while the cache holds maxCacheSize
\* entries evicts exactly one entry, the one least recently set or
\* successfully read, and nothing else; setOrder of an id already cached
\* replaces its value in place, evicts nothing and makes that entry the
\* most recently used.
C38_SetOrderEvictsOldest ==
    [][\A id \in CacheIds, d \in MemDeadlines :
          MemSetOrder(id, d) =>
              IF id \in MapIds
              THEN /\ memMap' = memMap /\ memEvicted' = 0
                   /\ memItem'[memMap[id]].order = [id |-> id, deadline |-> d]
                   /\ SetOrderKeeps(id)
                   /\ memNext'[0] = memMap[id]
              ELSE Cardinality(MapIds) = MaxCacheSize =>
                   /\ memEvicted' = memUse[Len(memUse)]
                   /\ MapIds' = (MapIds \ {memEvicted'}) \cup {id}
                   /\ SetOrderKeeps(id)
                   /\ memNext'[0] = memMap'[id]]_vars

\* every call had returned and the map held maxCacheSize ids when SetOrder of
\* a new id found the root at the back of the list: it evicted nothing and
\* panicked on the root's empty Value
C38_SetOrderPanicked ==
    /\ memPanic
    /\ \A r \in Readers : memPc[r] = "idle"
    /\ memReapPc = "idle"
    /\ Cardinality(MapIds) = MaxCacheSize /\ memLen >= MaxCacheSize
    /\ memPrev[0] = 0

====
